---- MODULE Spec2Model ----
(***************************************************************************)
(* A model of the wow-server-sim core: the zone runtime and its            *)
(* coordinator (src/server/world), the phase processors                    *)
(* (src/server/events), the drain queue (src/server/events/event_queue),   *)
(* the fixed-rate driver (src/server/game_loop) and the fault registry     *)
(* (src/server/fault/injector).                                            *)
(*                                                                         *)
(* The module holds several specifications over one set of variables:      *)
(*   SpecZone   ZoneManager with its zones: push_event and tick_all with   *)
(*              pre-/post-tick hooks that may throw                        *)
(*   SpecQueue  EventQueue: producer threads pushing, one consumer         *)
(*              draining, at the granularity of the mutex                  *)
(*   SpecLoop   GameLoop: caller threads in start()/run()/stop() and the   *)
(*              loop bodies they set running                               *)
(*   SpecFault  FaultRegistry: register/activate/deactivate/on_tick and    *)
(*              the per-zone pre-tick dispatch                             *)
(* A specification leaves the variables of the other parts at their        *)
(* initial values.                                                         *)
(***************************************************************************)
EXTENDS Integers, Sequences, FiniteSets, TLC

VARIABLES
    \* ---- ZoneManager / Zone (src/server/world) ----
    zones_,             \* ZoneManager::zones_ : zone id -> Zone
    session_zone_map_,  \* ZoneManager::session_zone_map_ : session id -> zone id
    next_tick,          \* the tick number the driver passes to the next tick_all
    last_result,        \* the ZoneManagerTickResult of the last tick_all call
    last_hooks,         \* what each zone's hooks did in the last tick_all call
    \* ---- EventQueue (src/server/events/event_queue) ----
    mutex_,             \* EventQueue::mutex_ : "free" or the thread that holds it
    events_,            \* EventQueue::events_
    qpc,                \* where each thread is in its push or drain call
    pushed,             \* the number of items each producer has pushed
    drain_result,       \* the local result of the drain call under way
    drained,            \* the batches drain has returned, in order
    \* ---- GameLoop (src/server/game_loop) ----
    running_,           \* GameLoop::running_
    tick_count_,        \* GameLoop::tick_count_
    thread_joinable,    \* thread_.joinable()
    api,                \* where each caller is in start() or run()
    stop_call,          \* where each thread is in stop()
    loop,               \* where each thread is in loop_body
    terminated,         \* std::terminate has been called
    calls,              \* the callback calls made, in order
    last_stop,          \* the last stop() call that returned
    stopped,            \* a stop() call that stopped the driver has returned
    overlapped,         \* two loop bodies have been active at once
    \* ---- FaultRegistry (src/server/fault/injector) ----
    faults_,            \* FaultRegistry::faults_ : id -> fault
    activations_,       \* FaultRegistry::activations_ : id -> ActivationInfo
    current_tick_,      \* FaultRegistry::current_tick_
    on_tick_calls,      \* the number of on_tick calls made
    activated_at,       \* on_tick_calls when each fault was last activated
    activated_ok,       \* the activate calls on each fault that returned true
    last_op,            \* the last call on the registry
    sequence,           \* progress of activate(id); deactivate(id); activate(id)
    \* ---- ZoneManager calls (src/server/world/zone_manager) ----
    last_call,          \* the last call on the manager and what it returned
    \* ---- Session (src/server/session) ----
    next_id_,           \* Session::next_id_
    sessions,           \* the Session objects constructed: session_id_ -> state_
    last_transition,    \* the last Session::transition call and what it returned
    \* ---- ControlChannel (src/control/control_channel) ----
    commands_,          \* CommandQueue::commands_
    commands,           \* the drained vector of process_pending_commands
    control_pc,         \* where the game thread is in process_pending_commands
    pushes,             \* the number of push calls made
    executed,           \* the execute_command calls made, in order
    completed,          \* the on_complete calls made, in order
    \* ---- SpellCastProcessor calls (src/server/events/spellcast) ----
    cast_entities,      \* the entity map process() works on
    cast_tick,          \* the current_tick of the next process() call
    accepted_at,        \* the tick of each entity's last accepted CAST_START, or -1
    last_process,       \* the last process() call and what it returned
    \* ---- Scenarios (src/server/fault/scenarios) ----
    session_crash,      \* the SessionCrashFault object
    crash_removed,      \* entities its dispatches removed since its last activate()
    scenario_calls,     \* the number of calls made on the scenario under test
    last_dispatch,      \* the last on_tick(tick, zone) call on a scenario
    cascading,          \* the CascadingZoneFailureFault object
    since_activation,   \* driver ticks and direct on_tick calls since its activate()
    herd,               \* the ThunderingHerdFault object
    herd_history,       \* its dispatches since activate(): ticks, players removed
    session_events,     \* SessionEventQueue::events_
    net_calls,          \* calls made by the network threads so far
    shutdown_requested, \* g_shutdown_requested
    driver_pc,          \* where the tick callback of main.cpp stands
    driver_log,         \* the steps the current (or last) callback performed
    driver_drained,     \* what the current (or last) callback drained
    socket_writes,      \* responses written to control sockets
    step_thread,        \* the thread that took the last step
    \* ---- GameLoop::loop_body with its clock (src/server/game_loop.cpp) ----
    clock,              \* std::chrono::steady_clock::now(), in time units
    timing_pc,          \* where loop_body stands: "top" or "measured"
    tick_metrics        \* the "Tick completed" metrics, with start and end times

zvars == <<zones_, session_zone_map_, next_tick, last_result, last_hooks>>

qvars == <<mutex_, events_, qpc, pushed, drain_result, drained>>

lvars == <<running_, tick_count_, thread_joinable, api, stop_call, loop,
           terminated, calls, last_stop, stopped, overlapped>>

fvars == <<faults_, activations_, current_tick_, on_tick_calls, activated_at,
           activated_ok,
           last_op, sequence>>

svars == <<next_id_, sessions, last_transition>>

mvars == <<last_call>>

cvars == <<commands_, commands, control_pc, pushes, executed, completed>>

pvars == <<cast_entities, cast_tick, accepted_at, last_process>>

xvars == <<session_crash, crash_removed, scenario_calls, last_dispatch,
           cascading, since_activation>>

hvars == <<herd, herd_history>>

dvars == <<session_events, net_calls, shutdown_requested, driver_pc, driver_log,
           driver_drained, socket_writes, step_thread>>

tvars == <<clock, timing_pc, tick_metrics>>

vars == <<zvars, qvars, lvars, fvars, svars, mvars, cvars, pvars, xvars, hvars,
          dvars, tvars>>

(***************************************************************************)
(* Bounds of the model.                                                    *)
(***************************************************************************)
MaxTicks == 3       \* tick_all calls per behaviour
MaxQueue == 2       \* events waiting in one zone's queue
MaxPush == 2        \* push calls per producer
MaxDrains == 3      \* drain calls per behaviour
MaxLoopTicks == 3   \* ticks the driver starts per behaviour
MaxDuration == 2    \* the largest duration_ticks of an activation
MaxFaultTicks == 3  \* FaultRegistry::on_tick calls per behaviour
MaxActivations == 3 \* successful activate calls per behaviour
MaxSessions == 2    \* Session objects constructed per behaviour
MaxManagerTicks == 1 \* tick_all calls between calls on the manager

MaxCommands == 3 \* CommandQueue::push calls per behaviour

MaxCastTick == 31 \* the last current_tick SpellCastProcessor::process is called with

MaxNetCalls == 3

MaxScenarioCalls == 6 \* activate, deactivate and on_tick calls on one scenario

MaxTimedTicks == 3  \* iterations of loop_body followed with the clock
MaxElapsed == 4     \* the longest time the callbacks of one tick take
MaxOversleep == 1   \* the longest time sleep_for sleeps beyond its argument

(***************************************************************************)
(* Generic helpers.                                                        *)
(***************************************************************************)
Min(S) == CHOOSE x \in S : \A y \in S : x <= y

MapPut(f, k, v) == [x \in DOMAIN f \cup {k} |-> IF x = k THEN v ELSE f[x]]

MapErase(f, k) == [x \in DOMAIN f \ {k} |-> f[x]]

EmptyMap == [x \in {} |-> 0]

\* F applied to v, with v evaluated once (a local the code computes once and
\* then reads several times).
Once(v, F(_)) == CHOOSE r \in {F(x) : x \in {v}} : TRUE

(***************************************************************************)
(* Entity (src/server/world/entity.h).  A Position is a triple; armor and  *)
(* resistance are kept in hundredths (0.50 is 50).                         *)
(***************************************************************************)
Origin == <<0, 0, 0>>

kDefaultHealth == 100

kDefaultMaxHealth == 100

DefaultCastState ==
    [is_casting |-> FALSE, spell_id |-> 0, cast_ticks_remaining |-> 0,
     gcd_expires_tick |-> 0, moved_this_tick |-> FALSE]

DefaultCombatState ==
    [health |-> kDefaultHealth, max_health |-> kDefaultMaxHealth, armor |-> 0,
     resistance |-> 0, is_alive |-> TRUE, base_attack_damage |-> 0,
     threat_table |-> EmptyMap]

Entity(session_id, type) ==
    [session_id |-> session_id, entity_type |-> type, position |-> Origin,
     cast_state |-> DefaultCastState, combat_state |-> DefaultCombatState]

(***************************************************************************)
(* Events (src/server/events).  One record shape for the three kinds; the  *)
(* fields a kind does not carry are 0.                                     *)
(***************************************************************************)
MovementEvent(sid, pos) ==
    [event_type |-> "MOVEMENT", session_id |-> sid, position |-> pos,
     action |-> "NONE", spell_id |-> 0, cast_time_ticks |-> 0,
     target_session_id |-> 0, base_damage |-> 0, damage_type |-> "PHYSICAL"]

SpellCastEvent(sid, action, spell_id, cast_time_ticks) ==
    [event_type |-> "SPELL_CAST", session_id |-> sid, position |-> Origin,
     action |-> action, spell_id |-> spell_id, cast_time_ticks |-> cast_time_ticks,
     target_session_id |-> 0, base_damage |-> 0, damage_type |-> "PHYSICAL"]

CombatEvent(sid, target, base_damage, damage_type) ==
    [event_type |-> "COMBAT", session_id |-> sid, position |-> Origin,
     action |-> "ATTACK", spell_id |-> 0, cast_time_ticks |-> 0,
     target_session_id |-> target, base_damage |-> base_damage,
     damage_type |-> damage_type]

(***************************************************************************)
(* MovementProcessor::process (src/server/events/movement.cpp).            *)
(***************************************************************************)
RECURSIVE MovementLoop(_, _, _, _)
MovementLoop(events, i, entities, updated_sessions) ==
    IF i > Len(events)
    THEN [entities |-> entities, entities_moved |-> Cardinality(updated_sessions)]
    ELSE LET ev == events[i] IN
         IF ev.event_type # "MOVEMENT" \/ ev.session_id \notin DOMAIN entities
         THEN MovementLoop(events, i + 1, entities, updated_sessions)
         ELSE MovementLoop(events, i + 1,
                  [entities EXCEPT ![ev.session_id].position = ev.position],
                  updated_sessions \cup {ev.session_id})

MovementProcess(events, entities) == MovementLoop(events, 1, entities, {})

(***************************************************************************)
(* SpellCastProcessor::process (src/server/events/spellcast.cpp): the five *)
(* steps in order.                                                         *)
(***************************************************************************)
kGlobalCooldownTicks == 30

\* The largest value of a uint32_t counter.  TLC's integers end at 2^31 - 1,
\* which stands for UINT32_MAX here: what --0 wraps to.
kU32Max == 2147483647

ZeroSpellResult ==
    [casts_started |-> 0, casts_completed |-> 0, casts_interrupted |-> 0,
     gcd_blocked |-> 0]

CancelCast(cs) ==
    [cs EXCEPT !.is_casting = FALSE, !.spell_id = 0, !.cast_ticks_remaining = 0]

\* Step 1: movement cancellation.
SpellMovementCancel(entities, result) ==
    LET hit == {s \in DOMAIN entities :
                   entities[s].cast_state.moved_this_tick
                   /\ entities[s].cast_state.is_casting}
    IN [entities |-> [s \in DOMAIN entities |->
                         IF s \in hit
                         THEN [entities[s] EXCEPT !.cast_state = CancelCast(@)]
                         ELSE entities[s]],
        result |-> [result EXCEPT !.casts_interrupted = @ + Cardinality(hit)]]

\* Step 2: INTERRUPT events.
RECURSIVE SpellInterruptLoop(_, _, _, _)
SpellInterruptLoop(events, i, entities, result) ==
    IF i > Len(events)
    THEN [entities |-> entities, result |-> result]
    ELSE LET ev == events[i] IN
         IF \/ ev.event_type # "SPELL_CAST"
            \/ ev.action # "INTERRUPT"
            \/ ev.session_id \notin DOMAIN entities
         THEN SpellInterruptLoop(events, i + 1, entities, result)
         ELSE IF ~entities[ev.session_id].cast_state.is_casting
         THEN SpellInterruptLoop(events, i + 1, entities, result)
         ELSE SpellInterruptLoop(events, i + 1,
                  [entities EXCEPT ![ev.session_id].cast_state = CancelCast(@)],
                  [result EXCEPT !.casts_interrupted = @ + 1])

\* Step 3: advance timers (cast_ticks_remaining is a uint32_t).
AdvanceTimer(cs) ==
    LET left == IF cs.cast_ticks_remaining = 0 THEN kU32Max
                ELSE cs.cast_ticks_remaining - 1 IN
    IF left = 0
    THEN [cs EXCEPT !.cast_ticks_remaining = 0, !.is_casting = FALSE, !.spell_id = 0]
    ELSE [cs EXCEPT !.cast_ticks_remaining = left]

SpellAdvanceTimers(entities, result) ==
    LET casting == {s \in DOMAIN entities : entities[s].cast_state.is_casting}
        next == [s \in DOMAIN entities |->
                    IF s \in casting
                    THEN [entities[s] EXCEPT !.cast_state = AdvanceTimer(@)]
                    ELSE entities[s]]
        done == {s \in casting : ~next[s].cast_state.is_casting}
    IN [entities |-> next,
        result |-> [result EXCEPT !.casts_completed = @ + Cardinality(done)]]

\* Step 4: CAST_START events.
RECURSIVE SpellCastStartLoopBlocksAtExpiry(_, _, _, _, _)
SpellCastStartLoopBlocksAtExpiry(events, i, entities, result, current_tick) ==
    IF i > Len(events)
    THEN [entities |-> entities, result |-> result]
    ELSE LET ev == events[i] IN
         IF \/ ev.event_type # "SPELL_CAST"
            \/ ev.action # "CAST_START"
            \/ ev.session_id \notin DOMAIN entities
         THEN SpellCastStartLoopBlocksAtExpiry(events, i + 1, entities, result, current_tick)
         ELSE LET cs == entities[ev.session_id].cast_state
                  gcd == [cs EXCEPT !.gcd_expires_tick =
                                        current_tick + kGlobalCooldownTicks]
              IN IF cs.gcd_expires_tick >= current_tick
                 THEN SpellCastStartLoopBlocksAtExpiry(events, i + 1, entities,
                          [result EXCEPT !.gcd_blocked = @ + 1], current_tick)
                 ELSE IF ev.cast_time_ticks = 0
                 THEN SpellCastStartLoopBlocksAtExpiry(events, i + 1,
                          [entities EXCEPT ![ev.session_id].cast_state = gcd],
                          [result EXCEPT !.casts_started = @ + 1,
                                         !.casts_completed = @ + 1],
                          current_tick)
                 ELSE SpellCastStartLoopBlocksAtExpiry(events, i + 1,
                          [entities EXCEPT ![ev.session_id].cast_state =
                              [gcd EXCEPT !.is_casting = TRUE,
                                          !.spell_id = ev.spell_id,
                                          !.cast_ticks_remaining = ev.cast_time_ticks]],
                          [result EXCEPT !.casts_started = @ + 1],
                          current_tick)

RECURSIVE SpellCastStartLoop(_, _, _, _, _)
SpellCastStartLoop(events, i, entities, result, current_tick) ==
    IF i > Len(events)
    THEN [entities |-> entities, result |-> result]
    ELSE LET ev == events[i] IN
         IF \/ ev.event_type # "SPELL_CAST"
            \/ ev.action # "CAST_START"
            \/ ev.session_id \notin DOMAIN entities
         THEN SpellCastStartLoop(events, i + 1, entities, result, current_tick)
         ELSE LET cs == entities[ev.session_id].cast_state
                  gcd == [cs EXCEPT !.gcd_expires_tick =
                                        current_tick + kGlobalCooldownTicks]
              IN IF cs.gcd_expires_tick > current_tick
                 THEN SpellCastStartLoop(events, i + 1, entities,
                          [result EXCEPT !.gcd_blocked = @ + 1], current_tick)
                 ELSE IF ev.cast_time_ticks = 0
                 THEN SpellCastStartLoop(events, i + 1,
                          [entities EXCEPT ![ev.session_id].cast_state = gcd],
                          [result EXCEPT !.casts_started = @ + 1,
                                         !.casts_completed = @ + 1],
                          current_tick)
                 ELSE SpellCastStartLoop(events, i + 1,
                          [entities EXCEPT ![ev.session_id].cast_state =
                              [gcd EXCEPT !.is_casting = TRUE,
                                          !.spell_id = ev.spell_id,
                                          !.cast_ticks_remaining = ev.cast_time_ticks]],
                          [result EXCEPT !.casts_started = @ + 1],
                          current_tick)

\* Step 5: clear moved_this_tick.
SpellClearMoved(entities) ==
    [s \in DOMAIN entities |->
        [entities[s] EXCEPT !.cast_state.moved_this_tick = FALSE]]

SpellCastProcess(events, entities, current_tick) ==
    LET Step5(s4) ==
            [entities |-> SpellClearMoved(s4.entities), spell_result |-> s4.result]
        Step4(s3) ==
            Once(SpellCastStartLoop(events, 1, s3.entities, s3.result, current_tick),
                 Step5)
        Step3(s2) == Once(SpellAdvanceTimers(s2.entities, s2.result), Step4)
        Step2(s1) == Once(SpellInterruptLoop(events, 1, s1.entities, s1.result), Step3)
    IN Once(SpellMovementCancel(entities, ZeroSpellResult), Step2)

(***************************************************************************)
(* CombatProcessor::process (src/server/events/combat.cpp).  Mitigation is *)
(* in hundredths; std::round rounds halves away from zero.  The entity map *)
(* and a threat table are walked in ascending id order.                    *)
(***************************************************************************)
kMaxMitigation == 75

ZeroCombatResult ==
    [attacks_processed |-> 0, attacks_missed |-> 0, kills |-> 0,
     npc_attacks |-> 0, total_damage_dealt |-> 0]

Clamp(x, lo, hi) == IF x < lo THEN lo ELSE IF x > hi THEN hi ELSE x

\* round(n / 100), halves away from zero
RoundHundredths(n) ==
    IF n >= 0 THEN (n + 50) \div 100 ELSE -((-n + 50) \div 100)

compute_actual_damage(base_damage, mitigation) ==
    RoundHundredths(base_damage * (100 - Clamp(mitigation, 0, kMaxMitigation)))

get_mitigation(target_state, damage_type) ==
    IF damage_type = "PHYSICAL" THEN target_state.armor ELSE target_state.resistance

\* apply_damage: the target's new combat state and the result counters.
apply_damageDiesBelowZero(attacker_id, target_id, base_damage, damage_type, entities, result) ==
    LET st == entities[target_id].combat_state
        actual_damage ==
            compute_actual_damage(base_damage, get_mitigation(st, damage_type))
        health == st.health - actual_damage
        old_threat == IF attacker_id \in DOMAIN st.threat_table
                      THEN st.threat_table[attacker_id] ELSE 0
        hit == [st EXCEPT !.health = health,
                          !.threat_table =
                              MapPut(@, attacker_id, old_threat + actual_damage),
                          !.is_alive = IF health < 0 THEN FALSE ELSE @]
    IN [entities |-> [entities EXCEPT ![target_id].combat_state = hit],
        result |-> [result EXCEPT
                       !.total_damage_dealt = @ + actual_damage,
                       !.kills = IF health <= 0 THEN @ + 1 ELSE @]]

apply_damage(attacker_id, target_id, base_damage, damage_type, entities, result) ==
    LET st == entities[target_id].combat_state
        actual_damage ==
            compute_actual_damage(base_damage, get_mitigation(st, damage_type))
        health == st.health - actual_damage
        old_threat == IF attacker_id \in DOMAIN st.threat_table
                      THEN st.threat_table[attacker_id] ELSE 0
        hit == [st EXCEPT !.health = health,
                          !.threat_table =
                              MapPut(@, attacker_id, old_threat + actual_damage),
                          !.is_alive = IF health <= 0 THEN FALSE ELSE @]
    IN [entities |-> [entities EXCEPT ![target_id].combat_state = hit],
        result |-> [result EXCEPT
                       !.total_damage_dealt = @ + actual_damage,
                       !.kills = IF health <= 0 THEN @ + 1 ELSE @]]

\* Step 1: ATTACK events.
RECURSIVE CombatAttackLoop(_, _, _, _)
CombatAttackLoop(events, i, entities, result) ==
    IF i > Len(events)
    THEN [entities |-> entities, result |-> result]
    ELSE LET ev == events[i] IN
         IF ev.event_type # "COMBAT" \/ ev.action # "ATTACK"
         THEN CombatAttackLoop(events, i + 1, entities, result)
         ELSE IF \/ ev.session_id \notin DOMAIN entities
                 \/ ~entities[ev.session_id].combat_state.is_alive
                 \/ ev.target_session_id \notin DOMAIN entities
                 \/ ~entities[ev.target_session_id].combat_state.is_alive
         THEN CombatAttackLoop(events, i + 1, entities,
                  [result EXCEPT !.attacks_missed = @ + 1])
         ELSE LET r == apply_damage(ev.session_id, ev.target_session_id,
                                    ev.base_damage, ev.damage_type, entities, result)
              IN CombatAttackLoop(events, i + 1, r.entities,
                     [r.result EXCEPT !.attacks_processed = @ + 1])

\* The highest-threat living target of a threat table (best_threat starts at -1).
BestTarget(threat, entities) ==
    LET live == {t \in DOMAIN threat :
                    /\ t \in DOMAIN entities
                    /\ entities[t].combat_state.is_alive
                    /\ threat[t] > -1}
    IN IF live = {} THEN 0
       ELSE Min({t \in live : \A u \in live : threat[u] <= threat[t]})

\* Step 2: NPC auto-attack.
RECURSIVE CombatNpcLoop(_, _, _)
CombatNpcLoop(ids, entities, result) ==
    IF ids = {}
    THEN [entities |-> entities, result |-> result]
    ELSE LET npc_id == Min(ids)
             npc == entities[npc_id]
             rest == ids \ {npc_id}
             best == BestTarget(npc.combat_state.threat_table, entities)
         IN IF \/ npc.entity_type # "NPC"
               \/ ~npc.combat_state.is_alive
               \/ npc.combat_state.base_attack_damage <= 0
               \/ DOMAIN npc.combat_state.threat_table = {}
               \/ best = 0
            THEN CombatNpcLoop(rest, entities, result)
            ELSE LET r == apply_damage(npc_id, best,
                                       npc.combat_state.base_attack_damage,
                                       "PHYSICAL", entities, result)
                 IN CombatNpcLoop(rest, r.entities,
                        [r.result EXCEPT !.npc_attacks = @ + 1])

\* Step 3: threat cleanup.
CombatThreatCleanupKeepsAll(entities) == entities

CombatThreatCleanup(entities) ==
    [e \in DOMAIN entities |->
        IF ~entities[e].combat_state.is_alive THEN entities[e]
        ELSE LET threat == entities[e].combat_state.threat_table
                 keep == {k \in DOMAIN threat :
                             ~(k \in DOMAIN entities
                               /\ ~entities[k].combat_state.is_alive)}
             IN [entities[e] EXCEPT !.combat_state.threat_table =
                                        [k \in keep |-> threat[k]]]]

CombatProcess(events, entities) ==
    LET Step3(s2) ==
            [entities |-> CombatThreatCleanup(s2.entities), combat_result |-> s2.result]
        Step2(s1) == Once(CombatNpcLoop(DOMAIN s1.entities, s1.entities, s1.result), Step3)
    IN Once(CombatAttackLoop(events, 1, entities, ZeroCombatResult), Step2)

(***************************************************************************)
(* Zone (src/server/world/zone.cpp).  A hook is an arbitrary closure: what *)
(* it does in one tick is an input of that tick, "OK" (no hook installed,  *)
(* or the hook returns), "THROW_STD" (it throws a std::exception) or       *)
(* "THROW_OTHER" (it throws anything else).                                *)
(***************************************************************************)
HookOutcomes == {"OK", "THROW_STD", "THROW_OTHER"}

Zone(zone_id) ==
    [zone_id |-> zone_id, state_ |-> "ACTIVE", total_ticks_ |-> 0,
     error_count_ |-> 0, entities_ |-> EmptyMap, event_queue_ |-> <<>>]

NewZoneTickResult(zone_id, current_tick) ==
    [zone_id |-> zone_id, tick |-> current_tick, events_processed |-> 0,
     entities_moved |-> 0, spell_result |-> ZeroSpellResult,
     combat_result |-> ZeroCombatResult, had_error |-> FALSE,
     error_message |-> ""]

\* Zone::add_entity: try_emplace keeps an entity already there.
ZoneAddEntity(zone, entity) ==
    IF entity.session_id \in DOMAIN zone.entities_
    THEN [zone |-> zone, inserted |-> FALSE]
    ELSE [zone |-> [zone EXCEPT !.entities_ = MapPut(@, entity.session_id, entity)],
          inserted |-> TRUE]

\* Zone::remove_entity
ZoneRemoveEntity(zone, session_id) ==
    [zone EXCEPT !.entities_ = MapErase(@, session_id)]

\* Zone::push_event
ZonePushEvent(zone, event) ==
    [zone EXCEPT !.event_queue_ = Append(@, event)]

\* The recovery step at the end of the try block.
RecoverStateSkipsDegraded(state) ==
    IF state = "CRASHED" \/ state = "DEGRADED" THEN "ACTIVE" ELSE state

RecoverState(state) ==
    IF state = "CRASHED" THEN "DEGRADED"
    ELSE IF state = "DEGRADED" THEN "ACTIVE"
    ELSE state

\* The try block after the pre-tick hook has returned: drain, the three
\* phases, the post-tick hook, the recovery step.
TickPipeline(zone, current_tick, post) ==
    LET events == zone.event_queue_
        PostHook(mv, sp, cb) ==
            LET done == [zone EXCEPT !.event_queue_ = <<>>, !.entities_ = cb.entities]
                result == [NewZoneTickResult(zone.zone_id, current_tick) EXCEPT
                              !.events_processed = Len(events),
                              !.entities_moved = mv.entities_moved,
                              !.spell_result = sp.spell_result,
                              !.combat_result = cb.combat_result]
            IN IF post # "OK"
               THEN [zone |-> done, result |-> result, thrown |-> post]
               ELSE [zone |-> [done EXCEPT !.state_ = RecoverState(@)],
                     result |-> result, thrown |-> "OK"]
        Combat(mv, sp) ==
            LET After(cb) == PostHook(mv, sp, cb)
            IN Once(CombatProcess(events, sp.entities), After)
        SpellCast(mv) ==
            LET After(sp) == Combat(mv, sp)
            IN Once(SpellCastProcess(events, mv.entities, current_tick), After)
    IN Once(MovementProcess(events, zone.entities_), SpellCast)

TryBlockDrainsFirst(zone, current_tick, pre, post) ==
    IF pre # "OK"
    THEN [zone |-> [zone EXCEPT !.event_queue_ = <<>>],
          result |-> NewZoneTickResult(zone.zone_id, current_tick),
          thrown |-> pre]
    ELSE TickPipeline(zone, current_tick, post)

\* The whole try block: a throwing pre-tick hook leaves it before the drain.
TryBlock(zone, current_tick, pre, post) ==
    IF pre # "OK"
    THEN [zone |-> zone,
          result |-> NewZoneTickResult(zone.zone_id, current_tick),
          thrown |-> pre]
    ELSE TickPipeline(zone, current_tick, post)

\* The two catch clauses.
CatchBlockResetsZone(zone, result, thrown) ==
    [zone |-> [zone EXCEPT !.state_ = "CRASHED", !.error_count_ = @ + 1,
                           !.entities_ = EmptyMap],
     result |-> [result EXCEPT
                    !.had_error = TRUE,
                    !.error_message = IF thrown = "THROW_STD"
                                      THEN "what()" ELSE "Unknown exception"]]

CatchBlock(zone, result, thrown) ==
    [zone |-> [zone EXCEPT !.state_ = "CRASHED", !.error_count_ = @ + 1],
     result |-> [result EXCEPT
                    !.had_error = TRUE,
                    !.error_message = IF thrown = "THROW_STD"
                                      THEN "what()" ELSE "Unknown exception"]]

\* try { ... } catch: the exception guard.
ZoneTickGuarded(zone, current_tick, pre, post) ==
    LET Guard(t) == IF t.thrown = "OK"
                    THEN [zone |-> t.zone, result |-> t.result]
                    ELSE CatchBlock(t.zone, t.result, t.thrown)
    IN Once(TryBlock(zone, current_tick, pre, post), Guard)

ZoneTickCountsInsideTry(zone, current_tick, pre, post) ==
    LET Count(g) == [zone |-> IF g.result.had_error THEN g.zone
                              ELSE [g.zone EXCEPT !.total_ticks_ = @ + 1],
                     result |-> g.result]
    IN Once(ZoneTickGuarded(zone, current_tick, pre, post), Count)

\* Zone::tick
ZoneTick(zone, current_tick, pre, post) ==
    LET Count(g) == [zone |-> [g.zone EXCEPT !.total_ticks_ = @ + 1],
                     result |-> g.result]
    IN Once(ZoneTickGuarded(zone, current_tick, pre, post), Count)

(***************************************************************************)
(* ZoneManager (src/server/world/zone_manager.cpp).  zones_ is an          *)
(* unordered_map: the order in which tick_all walks it is an input of the  *)
(* call, any sequence of all the zone ids without repetition.              *)
(***************************************************************************)
NewManagerTickResult(current_tick) ==
    [tick |-> current_tick, zones_ticked |-> 0, zones_with_errors |-> 0,
     total_events |-> 0, zone_results |-> <<>>]

\* The iteration orders of a map with these keys.
IterationOrders(keys) ==
    {o \in [1..Cardinality(keys) -> keys] :
        \A i, j \in DOMAIN o : i # j => o[i] # o[j]}

RECURSIVE TickAllLoopStopsAtFailure(_, _, _, _, _)
TickAllLoopStopsAtFailure(order, zones, current_tick, hooks, result) ==
    IF order = <<>>
    THEN [zones |-> zones, result |-> result]
    ELSE LET zone_id == Head(order)
             Rest(t) ==
                 LET r == [result EXCEPT
                              !.zones_with_errors =
                                  IF t.result.had_error THEN @ + 1 ELSE @,
                              !.total_events = @ + t.result.events_processed,
                              !.zone_results = Append(@, t.result),
                              !.zones_ticked = @ + 1]
                 IN IF t.result.had_error
                    THEN [zones |-> [zones EXCEPT ![zone_id] = t.zone], result |-> r]
                    ELSE TickAllLoopStopsAtFailure(Tail(order),
                             [zones EXCEPT ![zone_id] = t.zone], current_tick,
                             hooks, r)
         IN Once(ZoneTick(zones[zone_id], current_tick,
                          hooks[zone_id].pre, hooks[zone_id].post), Rest)

\* The loop of tick_all over the zones not yet ticked.
RECURSIVE TickAllLoop(_, _, _, _, _)
TickAllLoop(order, zones, current_tick, hooks, result) ==
    IF order = <<>>
    THEN [zones |-> zones, result |-> result]
    ELSE LET zone_id == Head(order)
             Rest(t) ==
                 TickAllLoop(Tail(order),
                     [zones EXCEPT ![zone_id] = t.zone], current_tick, hooks,
                     [result EXCEPT
                         !.zones_with_errors = IF t.result.had_error THEN @ + 1 ELSE @,
                         !.total_events = @ + t.result.events_processed,
                         !.zone_results = Append(@, t.result),
                         !.zones_ticked = @ + 1])
         IN Once(ZoneTick(zones[zone_id], current_tick,
                          hooks[zone_id].pre, hooks[zone_id].post), Rest)

\* ZoneManager::tick_all
TickAllOf(zones, current_tick, hooks, order) ==
    TickAllLoop(order, zones, current_tick, hooks,
                NewManagerTickResult(current_tick))

(***************************************************************************)
(* SpecZone: the inputs.                                                   *)
(***************************************************************************)
ZoneIds == {1, 2}

SessionIds == {1, 2}

PosA == <<5, 10, 15>>

PosB == <<7, 8, 9>>

ZoneEvents ==
    {MovementEvent(1, PosA), MovementEvent(1, PosB), MovementEvent(2, PosA)}

\* What the two hooks of one zone do in one tick; the post-tick hook of a
\* tick whose pre-tick hook throws is never called.
HookChoices ==
    {h \in [pre : HookOutcomes, post : {"OK", "THROW_STD"}] :
        h.pre # "OK" => h.post = "OK"}

NoHooks == [z \in ZoneIds |-> [pre |-> "OK", post |-> "OK"]]

InitZone ==
    /\ zones_ = [z \in ZoneIds |->
                    ZoneAddEntity(Zone(z), Entity(z, "PLAYER")).zone]
    /\ session_zone_map_ = [s \in SessionIds |-> s]
    /\ next_tick = 0
    /\ last_result = NewManagerTickResult(0)
    /\ last_hooks = NoHooks

\* Zone::take_entity: extract() and the move out of the node.
ZoneTakeEntityCopies(zone, session_id) ==
    IF session_id \notin DOMAIN zone.entities_
    THEN [zone |-> zone, found |-> FALSE, entity |-> Entity(session_id, "PLAYER")]
    ELSE [zone |-> zone, found |-> TRUE, entity |-> zone.entities_[session_id]]

ZoneTakeEntity(zone, session_id) ==
    IF session_id \notin DOMAIN zone.entities_
    THEN [zone |-> zone, found |-> FALSE, entity |-> Entity(session_id, "PLAYER")]
    ELSE [zone |-> [zone EXCEPT !.entities_ = MapErase(@, session_id)],
          found |-> TRUE, entity |-> zone.entities_[session_id]]

\* An Entity after std::move(entity) has initialised another Entity: the
\* scalar members keep their values, and threat_table (an unordered_map) is
\* left valid but unspecified: emptied, as the move constructors of the
\* standard libraries leave it, or as it was.
MovedFrom(entity) ==
    {[entity EXCEPT !.combat_state.threat_table = EmptyMap], entity}

NoCall == [op |-> "none", session_id |-> 0, zone_id |-> 0, returned |-> 0,
           batch |-> <<>>]

Call(op, session_id, zone_id, returned) ==
    [op |-> op, session_id |-> session_id, zone_id |-> zone_id,
     returned |-> returned, batch |-> <<>>]

InitManager == last_call = NoCall

\* ZoneManager::assign_session on the two maps
AssignSessionOfSkipsAssignedTest(session_id, zone_id, zones, map) ==
    IF zone_id \notin DOMAIN zones
    THEN [returned |-> FALSE, zones |-> zones, map |-> map]
    ELSE LET a == ZoneAddEntity(zones[zone_id], Entity(session_id, "PLAYER")) IN
         IF ~a.inserted
         THEN [returned |-> FALSE, zones |-> zones, map |-> map]
         ELSE [returned |-> TRUE,
               zones |-> [zones EXCEPT ![zone_id] = a.zone],
               map |-> MapPut(map, session_id, zone_id)]

AssignSessionOf(session_id, zone_id, zones, map) ==
    IF zone_id \notin DOMAIN zones
    THEN [returned |-> FALSE, zones |-> zones, map |-> map]
    ELSE IF session_id \in DOMAIN map
    THEN [returned |-> FALSE, zones |-> zones, map |-> map]
    ELSE LET a == ZoneAddEntity(zones[zone_id], Entity(session_id, "PLAYER")) IN
         IF ~a.inserted
         THEN [returned |-> FALSE, zones |-> zones, map |-> map]
         ELSE [returned |-> TRUE,
               zones |-> [zones EXCEPT ![zone_id] = a.zone],
               map |-> MapPut(map, session_id, zone_id)]

\* ZoneManager::assign_session
AssignSession(session_id, zone_id) ==
    /\ \E r \in {AssignSessionOf(session_id, zone_id, zones_, session_zone_map_)} :
          /\ zones_' = r.zones
          /\ session_zone_map_' = r.map
          /\ last_call' = Call("assign_session", session_id, zone_id,
                               IF r.returned THEN 1 ELSE 0)
    /\ UNCHANGED <<next_tick, last_result, last_hooks>>

\* ZoneManager::remove_session
RemoveSession(session_id) ==
    /\ IF session_id \notin DOMAIN session_zone_map_
       THEN /\ UNCHANGED <<zones_, session_zone_map_>>
            /\ last_call' = Call("remove_session", session_id, 0, 0)
       ELSE LET zone_id == session_zone_map_[session_id] IN
            /\ zones_' = IF zone_id \in DOMAIN zones_
                         THEN [zones_ EXCEPT ![zone_id] = ZoneRemoveEntity(@, session_id)]
                         ELSE zones_
            /\ session_zone_map_' = MapErase(session_zone_map_, session_id)
            /\ last_call' = Call("remove_session", session_id, zone_id, 1)
    /\ UNCHANGED <<next_tick, last_result, last_hooks>>

\* ZoneManager::transfer_session on the two maps; left is what the rollback
\* finds in the entity it has already moved from.
TransferSessionKeepsMapping(session_id, target_zone_id, zones, map, left) ==
    IF \/ session_id \notin DOMAIN map
       \/ target_zone_id \notin DOMAIN zones
       \/ map[session_id] \notin DOMAIN zones
    THEN [returned |-> FALSE, zones |-> zones, map |-> map]
    ELSE LET source == map[session_id]
             t == ZoneTakeEntity(zones[source], session_id)
             taken == [zones EXCEPT ![source] = t.zone]
             a == ZoneAddEntity(taken[target_zone_id], t.entity)
         IN IF ~t.found
            THEN [returned |-> FALSE, zones |-> zones, map |-> map]
            ELSE IF ~a.inserted
            THEN [returned |-> FALSE,
                  zones |-> [taken EXCEPT ![source] = ZoneAddEntity(@, left).zone],
                  map |-> map]
            ELSE [returned |-> TRUE,
                  zones |-> [taken EXCEPT ![target_zone_id] = a.zone],
                  map |-> map]

TransferSessionOf(session_id, target_zone_id, zones, map, left) ==
    IF \/ session_id \notin DOMAIN map
       \/ target_zone_id \notin DOMAIN zones
       \/ map[session_id] \notin DOMAIN zones
    THEN [returned |-> FALSE, zones |-> zones, map |-> map]
    ELSE LET source == map[session_id]
             t == ZoneTakeEntity(zones[source], session_id)
             taken == [zones EXCEPT ![source] = t.zone]
             a == ZoneAddEntity(taken[target_zone_id], t.entity)
         IN IF ~t.found
            THEN [returned |-> FALSE, zones |-> zones, map |-> map]
            ELSE IF ~a.inserted
            THEN [returned |-> FALSE,
                  zones |-> [taken EXCEPT ![source] = ZoneAddEntity(@, left).zone],
                  map |-> map]
            ELSE [returned |-> TRUE,
                  zones |-> [taken EXCEPT ![target_zone_id] = a.zone],
                  map |-> MapPut(map, session_id, target_zone_id)]

\* The entity transfer_session takes out of the source zone.
TakenBy(session_id, zones, map) ==
    IF session_id \in DOMAIN map /\ map[session_id] \in DOMAIN zones
    THEN ZoneTakeEntity(zones[map[session_id]], session_id).entity
    ELSE Entity(session_id, "PLAYER")

\* constexpr ZoneId kNoZone = 0
kNoZone == 0

\* ZoneManager::create_zone: emplace keeps a zone already there.
CreateZone(zone_id) ==
    /\ zones_' = IF zone_id \in DOMAIN zones_ THEN zones_
                  ELSE MapPut(zones_, zone_id, Zone(zone_id))
    /\ last_call' = Call("create_zone", 0, zone_id, zone_id)
    /\ UNCHANGED <<session_zone_map_, next_tick, last_result, last_hooks>>

\* ZoneManager::session_zone
SessionZone(session_id, map) ==
    IF session_id \notin DOMAIN map THEN kNoZone ELSE map[session_id]

\* ZoneManager::transfer_session
TransferSession(session_id, target_zone_id) ==
    /\ \E left \in MovedFrom(TakenBy(session_id, zones_, session_zone_map_)) :
       \E r \in {TransferSessionOf(session_id, target_zone_id, zones_,
                                   session_zone_map_, left)} :
          /\ zones_' = r.zones
          /\ session_zone_map_' = r.map
          /\ last_call' = Call("transfer_session", session_id, target_zone_id,
                               IF r.returned THEN 1 ELSE 0)
    /\ UNCHANGED <<next_tick, last_result, last_hooks>>

\* A null entry of the intake vector.
NullEvent == [MovementEvent(0, Origin) EXCEPT !.event_type = "NULL"]

\* ZoneManager::route_events: the loop over the batch from entry i on
RECURSIVE RouteLoopCountsAll(_, _, _, _, _)
RouteLoopCountsAll(events, i, zones, map, routed) ==
    IF i > Len(events)
    THEN [zones |-> zones, routed |-> routed]
    ELSE LET ev == events[i] IN
         IF ev.event_type = "NULL"
         THEN RouteLoopCountsAll(events, i + 1, zones, map, routed)
         ELSE IF ev.session_id \notin DOMAIN map
         THEN RouteLoopCountsAll(events, i + 1, zones, map, routed + 1)
         ELSE IF map[ev.session_id] \notin DOMAIN zones
         THEN RouteLoopCountsAll(events, i + 1, zones, map, routed)
         ELSE RouteLoopCountsAll(events, i + 1,
                  [zones EXCEPT ![map[ev.session_id]] = ZonePushEvent(@, ev)],
                  map, routed + 1)

RECURSIVE RouteLoop(_, _, _, _, _)
RouteLoop(events, i, zones, map, routed) ==
    IF i > Len(events)
    THEN [zones |-> zones, routed |-> routed]
    ELSE LET ev == events[i] IN
         IF ev.event_type = "NULL"
         THEN RouteLoop(events, i + 1, zones, map, routed)
         ELSE IF ev.session_id \notin DOMAIN map
         THEN RouteLoop(events, i + 1, zones, map, routed)
         ELSE IF map[ev.session_id] \notin DOMAIN zones
         THEN RouteLoop(events, i + 1, zones, map, routed)
         ELSE RouteLoop(events, i + 1,
                  [zones EXCEPT ![map[ev.session_id]] = ZonePushEvent(@, ev)],
                  map, routed + 1)

\* ZoneManager::route_events, called between ticks, on drained queues.
RouteEvents(events) ==
    /\ \A z \in DOMAIN zones_ : zones_[z].event_queue_ = <<>>
    /\ \E r \in {RouteLoop(events, 1, zones_, session_zone_map_, 0)} :
          /\ zones_' = r.zones
          /\ last_call' = [Call("route_events", 0, 0, r.routed) EXCEPT !.batch = events]
    /\ UNCHANGED <<session_zone_map_, next_tick, last_result, last_hooks>>

\* Zone::add_entity called on a zone of the manager (get_zone(id)->add_entity,
\* as main.cpp places its NPCs).
AddEntity(zone_id, entity) ==
    /\ zone_id \in DOMAIN zones_
    /\ \E a \in {ZoneAddEntity(zones_[zone_id], entity)} :
          /\ zones_' = [zones_ EXCEPT ![zone_id] = a.zone]
          /\ last_call' = Call("add_entity", entity.session_id, zone_id,
                               IF a.inserted THEN 1 ELSE 0)
    /\ UNCHANGED <<session_zone_map_, next_tick, last_result, last_hooks>>

\* Zone::push_event on one zone of the manager
PushEvent(zone_id, event) ==
    /\ zone_id \in DOMAIN zones_
    /\ Len(zones_[zone_id].event_queue_) < MaxQueue
    /\ zones_' = [zones_ EXCEPT ![zone_id] = ZonePushEvent(@, event)]
    /\ UNCHANGED <<session_zone_map_, next_tick, last_result, last_hooks>>

\* ZoneManager::tick_all(next_tick)
TickAll(hooks, order) ==
    /\ next_tick < MaxTicks
    /\ \E r \in {TickAllOf(zones_, next_tick, hooks, order)} :
          /\ zones_' = r.zones
          /\ last_result' = r.result
    /\ last_hooks' = hooks
    /\ next_tick' = next_tick + 1
    /\ UNCHANGED session_zone_map_

\* ZoneManager::tick_all between calls on the manager, no hook installed.
ManagerTickAll(order) ==
    /\ next_tick < MaxManagerTicks
    /\ TickAll(NoHooks, order)
    /\ last_call' = Call("tick_all", 0, 0, 0)

(***************************************************************************)
(* EventQueue (src/server/events/event_queue.cpp).  A call is three steps: *)
(* the lock_guard takes mutex_, the body runs, the lock_guard releases     *)
(* mutex_ as the call returns.  An item is named by its producer and the   *)
(* number of the push that made it.                                        *)
(***************************************************************************)
Producers == {"net1", "net2"}

Consumer == "game"

QueueThreads == Producers \cup {Consumer}

InitQueue ==
    /\ mutex_ = "free"
    /\ events_ = <<>>
    /\ qpc = [t \in QueueThreads |-> "idle"]
    /\ pushed = [p \in Producers |-> 0]
    /\ drain_result = <<>>
    /\ drained = <<>>

\* std::lock_guard<std::mutex> lock(mutex_), in push and in drain
QueueLock(t) ==
    /\ qpc[t] = "idle"
    /\ t \in Producers => pushed[t] < MaxPush
    /\ t = Consumer => Len(drained) < MaxDrains
    /\ mutex_ = "free"
    /\ mutex_' = t
    /\ qpc' = [qpc EXCEPT ![t] = "locked"]
    /\ UNCHANGED <<events_, pushed, drain_result, drained>>

\* EventQueue::push: events_.push_back(std::move(event))
QueuePushBack(p) ==
    /\ p \in Producers
    /\ qpc[p] = "locked"
    /\ events_' = Append(events_, [producer |-> p, seq |-> pushed[p] + 1])
    /\ pushed' = [pushed EXCEPT ![p] = @ + 1]
    /\ qpc' = [qpc EXCEPT ![p] = "unlock"]
    /\ UNCHANGED <<mutex_, drain_result, drained>>

\* result.swap(events_) with result empty: what each vector holds afterwards.
DrainSwapCopies(events) == [result |-> events, events_ |-> events]

DrainSwap(events) == [result |-> events, events_ |-> <<>>]

\* EventQueue::drain: the swap
QueueDrainSwap ==
    /\ qpc[Consumer] = "locked"
    /\ \E s \in {DrainSwap(events_)} :
          /\ drain_result' = s.result
          /\ events_' = s.events_
    /\ qpc' = [qpc EXCEPT ![Consumer] = "unlock"]
    /\ UNCHANGED <<mutex_, pushed, drained>>

\* The end of push: the lock_guard releases mutex_.
QueuePushReturn(p) ==
    /\ p \in Producers
    /\ qpc[p] = "unlock"
    /\ mutex_' = "free"
    /\ qpc' = [qpc EXCEPT ![p] = "idle"]
    /\ UNCHANGED <<events_, pushed, drain_result, drained>>

\* The end of drain: result is returned and the lock_guard releases mutex_.
QueueDrainReturn ==
    /\ qpc[Consumer] = "unlock"
    /\ mutex_' = "free"
    /\ drained' = Append(drained, drain_result)
    /\ drain_result' = <<>>
    /\ qpc' = [qpc EXCEPT ![Consumer] = "idle"]
    /\ UNCHANGED <<events_, pushed>>

(***************************************************************************)
(* GameLoop (src/server/game_loop.cpp).  The threads are the callers of    *)
(* start(), run() and stop() and the background thread held by thread_;    *)
(* a loop body runs on the background thread or, in run(), on the caller.  *)
(* Each atomic operation on running_ and tick_count_ is a step of its      *)
(* own; a callback runs in one step, or up to its call of stop().          *)
(* std::terminate ends the program.                                        *)
(***************************************************************************)
\* The threads that call stop(); the first of them also calls start() and run().
Callers == {"main", "ctl"}

Starters == {"main"}

Bg == "thread_"

\* The threads a loop body runs on.
LoopThreads == Starters \cup {Bg}

\* The threads that may be in stop(): the callers and, from a callback, the
\* background thread.
StopThreads == Callers \cup {Bg}

NumCallbacks == 2

LoopOff == [pc |-> "off", tick |-> 0, cb |-> 0]

NoStop == [pc |-> "none", loop_running |-> FALSE]

NoStopYet ==
    [made |-> FALSE, outside |-> FALSE, joined |-> FALSE,
     loop_running |-> FALSE, in_flight |-> FALSE, bg_pc |-> "off"]

InitLoop ==
    /\ running_ = FALSE
    /\ tick_count_ = 0
    /\ thread_joinable = FALSE
    /\ api = [c \in Starters |-> "idle"]
    /\ stop_call = [t \in StopThreads |-> NoStop]
    /\ loop = [t \in LoopThreads |-> LoopOff]
    /\ terminated = FALSE
    /\ calls = <<>>
    /\ last_stop = NoStopYet
    /\ stopped = FALSE
    /\ overlapped = FALSE

\* A loop body is between its entry and its exit on thread t.
LoopActive(t) == loop[t].pc \notin {"off", "done"}

\* A tick is in flight on thread t: its callbacks are being called.
TickInFlight(t) == loop[t].pc \in {"call", "in_cb"}

\* Thread t is free to take its next step.
CanStep(t) == ~terminated /\ stop_call[t].pc = "none"

\* loop_body is entered on thread t.
EnterLoop(t) ==
    /\ loop' = [loop EXCEPT ![t] = [pc |-> "check", tick |-> 0, cb |-> 0]]
    /\ overlapped' = (overlapped \/ \E u \in LoopThreads \ {t} : LoopActive(u))

\* GameLoop::start: the compare_exchange
StartCall(c) ==
    /\ c \in Starters /\ api[c] = "idle" /\ CanStep(c)
    /\ IF running_
       THEN UNCHANGED <<running_, api>>
       ELSE /\ running_' = TRUE
            /\ api' = [api EXCEPT ![c] = "start_spawn"]
    /\ UNCHANGED <<tick_count_, thread_joinable, stop_call, loop,
                   terminated, calls, last_stop, stopped, overlapped>>

\* GameLoop::start: thread_ = std::thread(...).  Assigning to a joinable
\* std::thread calls std::terminate.
StartSpawn(c) ==
    /\ c \in Starters /\ api[c] = "start_spawn" /\ CanStep(c)
    /\ api' = [api EXCEPT ![c] = "idle"]
    /\ IF thread_joinable
       THEN /\ terminated' = TRUE
            /\ UNCHANGED <<thread_joinable, loop, overlapped>>
       ELSE /\ thread_joinable' = TRUE
            /\ EnterLoop(Bg)
            /\ UNCHANGED terminated
    /\ UNCHANGED <<running_, tick_count_, stop_call, calls, last_stop, stopped>>

\* GameLoop::run: the compare_exchange, then loop_body on the caller
RunCall(c) ==
    /\ c \in Starters /\ api[c] = "idle" /\ CanStep(c)
    /\ IF running_
       THEN UNCHANGED <<running_, api, loop, overlapped>>
       ELSE /\ running_' = TRUE
            /\ api' = [api EXCEPT ![c] = "run"]
            /\ EnterLoop(c)
    /\ UNCHANGED <<tick_count_, thread_joinable, stop_call,
                   terminated, calls, last_stop, stopped>>

\* loop_body: while (running_.load())
LoopCheck(t) ==
    /\ loop[t].pc = "check" /\ CanStep(t)
    /\ IF running_
       THEN /\ tick_count_ < MaxLoopTicks
            /\ loop' = [loop EXCEPT ![t].pc = "fetch"]
            /\ UNCHANGED api
       ELSE IF t = Bg
       THEN /\ loop' = [loop EXCEPT ![t] = [LoopOff EXCEPT !.pc = "done"]]
            /\ UNCHANGED api
       ELSE /\ loop' = [loop EXCEPT ![t] = LoopOff]
            /\ api' = [api EXCEPT ![t] = "idle"]
    /\ UNCHANGED <<running_, tick_count_, thread_joinable, stop_call,
                   terminated, calls, last_stop, stopped, overlapped>>

\* tick_count_.fetch_add(1): the value returned and the value stored.
FetchAddReturnsNew(count) == [value |-> count + 1, stored |-> count + 1]

FetchAdd(count) == [value |-> count, stored |-> count + 1]

\* execute_tick: uint64_t current_tick = tick_count_.fetch_add(1)
LoopFetch(t) ==
    /\ loop[t].pc = "fetch" /\ CanStep(t)
    /\ \E f \in {FetchAdd(tick_count_)} :
          /\ tick_count_' = f.stored
          /\ loop' = [loop EXCEPT ![t].pc = "call", ![t].tick = f.value,
                                  ![t].cb = 1]
    /\ UNCHANGED <<running_, thread_joinable, api, stop_call,
                   terminated, calls, last_stop, stopped, overlapped>>

\* What a stop() call that returns on thread t leaves in last_stop.
StopRecord(t, joined, loop_running) ==
    [made |-> TRUE, outside |-> t \notin LoopThreads, joined |-> joined,
     loop_running |-> loop_running,
     in_flight |-> \E u \in LoopThreads : TickInFlight(u),
     bg_pc |-> IF joined THEN loop[Bg].pc ELSE "off"]

\* GameLoop::stop: the compare_exchange, by thread t
StopCompareExchange(t) ==
    LET loop_running == \E u \in LoopThreads : LoopActive(u) IN
    IF running_
    THEN /\ running_' = FALSE
         /\ stop_call' = [stop_call EXCEPT
                             ![t] = [pc |-> "joinable",
                                     loop_running |-> loop_running]]
         /\ UNCHANGED last_stop
    ELSE /\ last_stop' = StopRecord(t, FALSE, loop_running)
         /\ UNCHANGED <<running_, stop_call>>

\* execute_tick: the loop over callbacks_ moves on after a callback.
AfterCallback(l) ==
    IF l.cb < NumCallbacks
    THEN [l EXCEPT !.pc = "call", !.cb = @ + 1]
    ELSE [LoopOff EXCEPT !.pc = "check"]

\* execute_tick: cb(current_tick) is called and returns; a callback that
\* calls stop() stays in the call until stop() has returned.
LoopCallback(t, calls_stop) ==
    /\ loop[t].pc = "call" /\ CanStep(t)
    /\ calls' = Append(calls, [cb |-> loop[t].cb, tick |-> loop[t].tick])
    /\ IF calls_stop
       THEN /\ StopCompareExchange(t)
            /\ loop' = [loop EXCEPT ![t] = IF running_
                                            THEN [@ EXCEPT !.pc = "in_cb"]
                                            ELSE AfterCallback(@)]
       ELSE /\ loop' = [loop EXCEPT ![t] = AfterCallback(@)]
            /\ UNCHANGED <<running_, stop_call, last_stop>>
    /\ UNCHANGED <<tick_count_, thread_joinable, api, terminated,
                   stopped, overlapped>>

\* GameLoop::stop called by a thread outside the driver
StopCall(c) ==
    /\ c \in Callers /\ CanStep(c)
    /\ c \in Starters => api[c] = "idle"
    /\ StopCompareExchange(c)
    /\ UNCHANGED <<tick_count_, thread_joinable, api, loop,
                   terminated, calls, stopped, overlapped>>

\* stop() returns to thread t: a callback that called it returns.
StopReturnsTo(t) ==
    IF t \in LoopThreads /\ loop[t].pc = "in_cb"
    THEN [loop EXCEPT ![t] = AfterCallback(@)]
    ELSE loop

\* GameLoop::stop: if (thread_.joinable())
StopJoinable(t) ==
    /\ ~terminated /\ stop_call[t].pc = "joinable"
    /\ IF thread_joinable
       THEN /\ stop_call' = [stop_call EXCEPT ![t].pc = "join"]
            /\ UNCHANGED <<last_stop, stopped, loop>>
       ELSE /\ stop_call' = [stop_call EXCEPT ![t] = NoStop]
            /\ last_stop' = StopRecord(t, FALSE, stop_call[t].loop_running)
            /\ stopped' = TRUE
            /\ loop' = StopReturnsTo(t)
    /\ UNCHANGED <<running_, tick_count_, thread_joinable, api,
                   terminated, calls, overlapped>>

\* std::thread::join returns once the thread has finished.
JoinReturnsAtOnce(bg_pc) == TRUE

JoinReturns(bg_pc) == bg_pc = "done"

\* GameLoop::stop: thread_.join().  On the background thread itself join
\* throws std::system_error, which nothing catches.  On a thread_ another
\* stop() has joined meanwhile the two calls race: join throws, or returns.
StopJoin(t) ==
    /\ ~terminated /\ stop_call[t].pc = "join"
    /\ \/ /\ t = Bg \/ ~thread_joinable
          /\ terminated' = TRUE
          /\ UNCHANGED <<thread_joinable, stop_call, loop, last_stop, stopped>>
       \/ /\ t # Bg /\ ~thread_joinable
          /\ stop_call' = [stop_call EXCEPT ![t] = NoStop]
          /\ last_stop' = StopRecord(t, FALSE, stop_call[t].loop_running)
          /\ stopped' = TRUE
          /\ loop' = StopReturnsTo(t)
          /\ UNCHANGED <<thread_joinable, terminated>>
       \/ /\ t # Bg /\ thread_joinable
          /\ JoinReturns(loop[Bg].pc)
          /\ thread_joinable' = FALSE
          /\ stop_call' = [stop_call EXCEPT ![t] = NoStop]
          /\ last_stop' = StopRecord(t, TRUE, stop_call[t].loop_running)
          /\ stopped' = TRUE
          /\ loop' = [StopReturnsTo(t) EXCEPT ![Bg] = LoopOff]
          /\ UNCHANGED terminated
    /\ UNCHANGED <<running_, tick_count_, api, calls, overlapped>>

(***************************************************************************)
(* FaultRegistry (src/server/fault/injector.cpp) over two of the faults    *)
(* main.cpp registers, one of each mode.  A fault is what the registry     *)
(* reads of it: its mode and its active_ flag.  last_op records the last   *)
(* call made on the registry and the faults whose on_tick it called.       *)
(***************************************************************************)
FaultIds == {"latency-spike", "memory-pressure"}

UnknownFault == "no-such-fault"

FaultModeOf(id) == IF id = "memory-pressure" THEN "AMBIENT" ELSE "TICK_SCOPED"

TargetZones == {0, 1, 2}

Durations == 0..MaxDuration

\* FaultConfig::params: empty, or the one parameter the scenario reads
\* (delay_ms, megabytes) with the value 1.
Params == {<<>>, <<1>>}

FaultConfigs ==
    [params : Params, target_zone_id : TargetZones, duration_ticks : Durations]

DefaultFaultConfig == [params |-> <<>>, target_zone_id |-> 0, duration_ticks |-> 0]

\* megabytes_ of MemoryPressureFault when the configuration does not give it.
kDefaultMegabytes == 64

\* A scenario as constructed: active_, activations_ and the number of
\* buffers a MemoryPressureFault holds.  config_, delay_ms_ and megabytes_
\* are assigned by activate() only and read only while the fault is active,
\* when they are what the activation record's config gives.
NewFault(id) ==
    [mode |-> FaultModeOf(id), active_ |-> FALSE, activations_ |-> 0,
     ticks_elapsed_ |-> 0, buffers_ |-> 0]

NoOp == [op |-> "none", id |-> "", ok |-> TRUE, zone |-> 0, called |-> {},
         deactivated |-> {}]

NoSequence == [n |-> 0, id |-> "", config |-> DefaultFaultConfig,
               faults |-> EmptyMap, activations |-> EmptyMap]

InitFault ==
    /\ faults_ = [id \in FaultIds |-> NewFault(id)]
    /\ activations_ = EmptyMap
    /\ current_tick_ = 0
    /\ on_tick_calls = 0
    /\ activated_at = [id \in FaultIds |-> 0]
    /\ activated_ok = [id \in FaultIds |-> 0]
    /\ last_op = NoOp
    /\ sequence = NoSequence

\* MemoryPressureFault::activate: megabytes_ from the configuration
Megabytes(config) ==
    IF config.params # <<>> THEN config.params[1] ELSE kDefaultMegabytes

\* LatencySpikeFault::activate and MemoryPressureFault::activate
FaultActivateKeepsCount(fault, config) ==
    [fault EXCEPT !.active_ = TRUE, !.ticks_elapsed_ = 0,
                  !.buffers_ = IF fault.mode = "AMBIENT" THEN Megabytes(config) ELSE 0]

FaultActivate(fault, config) ==
    [fault EXCEPT !.active_ = TRUE, !.ticks_elapsed_ = 0, !.activations_ = @ + 1,
                  !.buffers_ = IF fault.mode = "AMBIENT" THEN Megabytes(config) ELSE 0]

\* LatencySpikeFault::deactivate and MemoryPressureFault::deactivate
FaultDeactivate(fault) == [fault EXCEPT !.active_ = FALSE, !.buffers_ = 0]

\* LatencySpikeFault::status and MemoryPressureFault::status; the config
\* member is not modelled.
FaultStatusOf(id, fault) ==
    [id |-> id, mode |-> fault.mode, active |-> fault.active_,
     activations |-> fault.activations_, ticks_elapsed |-> fault.ticks_elapsed_]

\* FaultRegistry::fault_status; the empty optional is the empty sequence.
FaultStatus(id, faults) ==
    IF id \notin DOMAIN faults THEN <<>> ELSE <<FaultStatusOf(id, faults[id])>>

\* FaultRegistry::active_count
ActiveCount(faults) == Cardinality({id \in DOMAIN faults : faults[id].active_})

\* The activate() calls made on the registry's faults.
TotalActivations(faults) ==
    faults["latency-spike"].activations_ + faults["memory-pressure"].activations_

\* FaultRegistry::activate on the two maps; every Fault::activate of
\* scenarios.cpp returns true.
ActivateInRecordsFirst(id, config, faults, activations) ==
    IF id \notin DOMAIN faults
    THEN [ok |-> FALSE, faults |-> faults,
          activations |-> MapPut(activations, id,
                                 [config |-> config, ticks_elapsed |-> 0])]
    ELSE [ok |-> TRUE,
          faults |-> [faults EXCEPT ![id] = FaultActivate(@, config)],
          activations |-> MapPut(activations, id,
                                 [config |-> config, ticks_elapsed |-> 0])]

ActivateIn(id, config, faults, activations) ==
    IF id \notin DOMAIN faults
    THEN [ok |-> FALSE, faults |-> faults, activations |-> activations]
    ELSE [ok |-> TRUE,
          faults |-> [faults EXCEPT ![id] = FaultActivate(@, config)],
          activations |-> MapPut(activations, id,
                                 [config |-> config, ticks_elapsed |-> 0])]

\* FaultRegistry::activate
Activate(id, config) ==
    /\ id \in DOMAIN faults_ => TotalActivations(faults_) < MaxActivations
    /\ \E r \in {ActivateIn(id, config, faults_, activations_)} :
          /\ faults_' = r.faults
          /\ activations_' = r.activations
          /\ activated_at' = IF r.ok THEN [activated_at EXCEPT ![id] = on_tick_calls]
                             ELSE activated_at
          /\ activated_ok' = IF r.ok THEN [activated_ok EXCEPT ![id] = @ + 1]
                             ELSE activated_ok
          /\ last_op' = [NoOp EXCEPT !.op = "activate", !.id = id, !.ok = r.ok]
          /\ sequence' =
                IF ~r.ok THEN NoSequence
                ELSE IF sequence.n = 2 /\ sequence.id = id /\ sequence.config = config
                THEN [sequence EXCEPT !.n = 3]
                ELSE [n |-> 1, id |-> id, config |-> config,
                      faults |-> faults_, activations |-> activations_]
    /\ UNCHANGED <<current_tick_, on_tick_calls>>

\* FaultRegistry::deactivate on the two maps
DeactivateIn(id, faults, activations) ==
    IF id \notin DOMAIN faults
    THEN [ok |-> FALSE, faults |-> faults, activations |-> activations]
    ELSE [ok |-> TRUE,
          faults |-> [faults EXCEPT ![id] = FaultDeactivate(@)],
          activations |-> MapErase(activations, id)]

\* FaultRegistry::deactivate
Deactivate(id) ==
    /\ \E d \in {DeactivateIn(id, faults_, activations_)} :
          /\ faults_' = d.faults
          /\ activations_' = d.activations
          /\ last_op' = [NoOp EXCEPT !.op = "deactivate", !.id = id, !.ok = d.ok]
    /\ sequence' = IF sequence.n = 1 /\ sequence.id = id
                   THEN [sequence EXCEPT !.n = 2] ELSE NoSequence
    /\ UNCHANGED <<current_tick_, on_tick_calls, activated_at, activated_ok>>

\* FaultRegistry::deactivate_all
DeactivateAll ==
    /\ faults_' = [id \in DOMAIN faults_ |->
                      IF faults_[id].active_ THEN FaultDeactivate(faults_[id])
                      ELSE faults_[id]]
    /\ activations_' = EmptyMap
    /\ last_op' = [NoOp EXCEPT !.op = "deactivate_all"]
    /\ sequence' = NoSequence
    /\ UNCHANGED <<current_tick_, on_tick_calls, activated_at, activated_ok>>

\* on_tick: the expiry test on an ActivationInfo whose ticks_elapsed has
\* been incremented.
ExpiredOneTickLate(info) ==
    info.config.duration_ticks > 0 /\ info.ticks_elapsed > info.config.duration_ticks

Expired(info) ==
    info.config.duration_ticks > 0 /\ info.ticks_elapsed >= info.config.duration_ticks

\* on_tick: the faults the loop over activations_ does not skip.
TickedAmbientOnly(faults, activations) ==
    {id \in DOMAIN activations :
        id \in DOMAIN faults /\ faults[id].active_ /\ faults[id].mode = "AMBIENT"}

Ticked(faults, activations) ==
    {id \in DOMAIN activations : id \in DOMAIN faults /\ faults[id].active_}

\* on_tick: the loop over activations_, then the deactivation of to_deactivate.
OnTickOf(faults, activations) ==
    LET ticked == Ticked(faults, activations)
        counted == [id \in DOMAIN activations |->
                       IF id \in ticked
                       THEN [activations[id] EXCEPT !.ticks_elapsed = @ + 1]
                       ELSE activations[id]]
        to_deactivate == {id \in ticked : Expired(counted[id])}
    IN [faults |-> [id \in DOMAIN faults |->
                       IF id \in to_deactivate
                       THEN FaultDeactivate(faults[id])
                       ELSE faults[id]],
        activations |-> [id \in DOMAIN counted \ to_deactivate |-> counted[id]],
        called |-> {id \in ticked : faults[id].mode = "AMBIENT"},
        deactivated |-> to_deactivate]

\* FaultRegistry::on_tick(current_tick)
OnTick ==
    /\ on_tick_calls < MaxFaultTicks
    /\ \E r \in {OnTickOf(faults_, activations_)} :
          /\ faults_' = r.faults
          /\ activations_' = r.activations
          /\ last_op' = [NoOp EXCEPT !.op = "on_tick", !.called = r.called,
                                     !.deactivated = r.deactivated]
    /\ current_tick_' = on_tick_calls
    /\ on_tick_calls' = on_tick_calls + 1
    /\ sequence' = NoSequence
    /\ UNCHANGED <<activated_at, activated_ok>>

\* FaultRegistry::execute_pre_tick_faults(zone): the body is empty.
ExecutePreTickFaults(zone_id) ==
    /\ last_op' = [NoOp EXCEPT !.op = "execute_pre_tick_faults",
                               !.zone = zone_id, !.called = {}]
    /\ sequence' = NoSequence
    /\ UNCHANGED <<faults_, activations_, current_tick_, on_tick_calls,
                   activated_at, activated_ok>>

(***************************************************************************)
(* Session (src/server/session.cpp): the state machine of one connection.  *)
(***************************************************************************)
SessionStates ==
    {"CONNECTING", "AUTHENTICATING", "IN_WORLD", "TRANSFERRING", "DISCONNECTING",
     "DESTROYED"}

SessionEvents ==
    {"AUTHENTICATE_SUCCESS", "ENTER_WORLD", "DISCONNECT", "BEGIN_TRANSFER",
     "TRANSFER_COMPLETE", "RECONNECT", "TIMEOUT"}

SessionTransition(from, event, to) == [from |-> from, event |-> event, to |-> to]

kTransitionTable ==
    << SessionTransition("CONNECTING",     "AUTHENTICATE_SUCCESS", "AUTHENTICATING"),
       SessionTransition("AUTHENTICATING", "ENTER_WORLD",          "IN_WORLD"),
       SessionTransition("IN_WORLD",       "DISCONNECT",           "DISCONNECTING"),
       SessionTransition("IN_WORLD",       "BEGIN_TRANSFER",       "TRANSFERRING"),
       SessionTransition("TRANSFERRING",   "TRANSFER_COMPLETE",    "IN_WORLD"),
       SessionTransition("TRANSFERRING",   "DISCONNECT",           "DISCONNECTING"),
       SessionTransition("DISCONNECTING",  "RECONNECT",            "AUTHENTICATING"),
       SessionTransition("DISCONNECTING",  "TIMEOUT",              "DESTROYED"),
       SessionTransition("CONNECTING",     "DISCONNECT",           "DESTROYED"),
       SessionTransition("AUTHENTICATING", "DISCONNECT",           "DISCONNECTING") >>

NoTransition == [id |-> 0, event |-> "", from |-> "", returned |-> FALSE]

InitSession ==
    /\ next_id_ = 1
    /\ sessions = EmptyMap
    /\ last_transition = NoTransition

\* Session::Session()
NewSession ==
    /\ next_id_ <= MaxSessions
    /\ sessions' = MapPut(sessions, next_id_, "CONNECTING")
    /\ next_id_' = next_id_ + 1
    /\ UNCHANGED last_transition

\* transition: the test of one table entry
EntryMatchesEventOnly(t, state, event) == t.event = event

EntryMatches(t, state, event) == t.from = state /\ t.event = event

\* transition: the scan of kTransitionTable from entry i on
RECURSIVE TransitionScan(_, _, _)
TransitionScan(i, state, event) ==
    IF i > Len(kTransitionTable)
    THEN [state_ |-> state, returned |-> FALSE]
    ELSE IF EntryMatches(kTransitionTable[i], state, event)
         THEN [state_ |-> kTransitionTable[i].to, returned |-> TRUE]
         ELSE TransitionScan(i + 1, state, event)

\* Session::transition(event) on the session with this id
Transition(id, event) ==
    /\ id \in DOMAIN sessions
    /\ \E r \in {TransitionScan(1, sessions[id], event)} :
          /\ sessions' = [sessions EXCEPT ![id] = r.state_]
          /\ last_transition' = [id |-> id, event |-> event, from |-> sessions[id],
                                 returned |-> r.returned]
    /\ UNCHANGED next_id_

(***************************************************************************)
(* Control channel (src/control/control_channel.cpp): the command queue    *)
(* between the network thread and the game thread, and the dispatch of a   *)
(* parsed request on the fault registry.  A field of a request is a JSON   *)
(* value: absent, a string or a number; params is absent or an object      *)
(* whose member is the one the scenario reads (delay_ms, megabytes).       *)
(***************************************************************************)
JsonAbsentString == [kind |-> "absent", v |-> ""]

JsonString(s) == [kind |-> "string", v |-> s]

JsonNumberForString == [kind |-> "number", v |-> ""]

JsonAbsentNumber == [kind |-> "absent", v |-> 0]

JsonNumber(n) == [kind |-> "number", v |-> n]

JsonStringForNumber == [kind |-> "string", v |-> 0]

JsonAbsentObject == [kind |-> "absent", member |-> JsonAbsentNumber]

JsonObject(member) == [kind |-> "object", member |-> member]

Request(command, fault_id, params, target_zone_id, duration_ticks) ==
    [command |-> command, fault_id |-> fault_id, params |-> params,
     target_zone_id |-> target_zone_id, duration_ticks |-> duration_ticks]

\* request.contains(key)
Contains(field) == field.kind # "absent"

\* request[key].is_string()
IsString(field) == field.kind = "string"

\* request[key].get<uint32_t>() and get<uint64_t>(): nlohmann::json throws
\* type_error 302 on a value that is not a number.
GetThrows(field) == field.kind # "number"

\* The response object: success, and error or command and fault_id.
Response(success, error, command, fault_id) ==
    [success |-> success, error |-> error, command |-> command,
     fault_id |-> fault_id]

NoResponse == Response(FALSE, "", "", "")

\* What a call of execute_command comes to: it returns a response, or an
\* exception leaves it; the registry's maps after it.
Returned(response, faults, activations) ==
    [thrown |-> FALSE, response |-> response, faults |-> faults,
     activations |-> activations, activated |-> ""]

Thrown(faults, activations) ==
    [thrown |-> TRUE, response |-> NoResponse, faults |-> faults,
     activations |-> activations, activated |-> ""]

\* handle_activate: the FaultConfig built from the request
ConfigOf(request) ==
    [params |-> IF Contains(request.params) /\ Contains(request.params.member)
                THEN <<request.params.member.v>> ELSE <<>>,
     target_zone_id |-> IF Contains(request.target_zone_id)
                        THEN request.target_zone_id.v ELSE 0,
     duration_ticks |-> IF Contains(request.duration_ticks)
                        THEN request.duration_ticks.v ELSE 0]

\* Fault::activate of scenarios.cpp on a params member that is not a number:
\* config_, active_, ticks_elapsed_ and activations_ are assigned, then get()
\* throws.
FaultActivateThrown(fault) ==
    [fault EXCEPT !.active_ = TRUE, !.ticks_elapsed_ = 0, !.activations_ = @ + 1]

\* handle_activate
HandleActivate(request, faults, activations) ==
    IF ~Contains(request.fault_id) \/ ~IsString(request.fault_id)
    THEN Returned(Response(FALSE, "Missing required field: fault_id", "", ""),
                  faults, activations)
    ELSE IF Contains(request.target_zone_id) /\ GetThrows(request.target_zone_id)
    THEN Thrown(faults, activations)
    ELSE IF Contains(request.duration_ticks) /\ GetThrows(request.duration_ticks)
    THEN Thrown(faults, activations)
    ELSE IF /\ request.fault_id.v \in DOMAIN faults
            /\ Contains(request.params) /\ Contains(request.params.member)
            /\ GetThrows(request.params.member)
    THEN Thrown([faults EXCEPT ![request.fault_id.v] = FaultActivateThrown(@)],
                activations)
    ELSE LET r == ActivateIn(request.fault_id.v, ConfigOf(request), faults,
                             activations)
         IN IF ~r.ok
            THEN Returned(Response(FALSE, "Failed to activate fault: ", "",
                                   request.fault_id.v), faults, activations)
            ELSE [Returned(Response(TRUE, "", "activate", request.fault_id.v),
                           r.faults, r.activations)
                  EXCEPT !.activated = request.fault_id.v]

\* handle_deactivate
HandleDeactivate(request, faults, activations) ==
    IF ~Contains(request.fault_id) \/ ~IsString(request.fault_id)
    THEN Returned(Response(FALSE, "Missing required field: fault_id", "", ""),
                  faults, activations)
    ELSE LET d == DeactivateIn(request.fault_id.v, faults, activations)
         IN IF ~d.ok
            THEN Returned(Response(FALSE, "Failed to deactivate fault: ", "",
                                   request.fault_id.v), faults, activations)
            ELSE Returned(Response(TRUE, "", "deactivate", request.fault_id.v),
                          d.faults, d.activations)

\* handle_deactivate_all
HandleDeactivateAll(request, faults, activations) ==
    Returned(Response(TRUE, "", "deactivate_all", ""),
             [id \in DOMAIN faults |->
                 IF faults[id].active_ THEN FaultDeactivate(faults[id])
                 ELSE faults[id]],
             EmptyMap)

\* handle_status: the status object of the response is not modelled.
HandleStatus(request, faults, activations) ==
    IF ~Contains(request.fault_id) \/ ~IsString(request.fault_id)
    THEN Returned(Response(FALSE, "Missing required field: fault_id", "", ""),
                  faults, activations)
    ELSE IF request.fault_id.v \notin DOMAIN faults
    THEN Returned(Response(FALSE, "Unknown fault: ", "", request.fault_id.v),
                  faults, activations)
    ELSE Returned(Response(TRUE, "", "status", request.fault_id.v), faults,
                  activations)

\* handle_list: the faults array of the response is not modelled.
HandleList(request, faults, activations) ==
    Returned(Response(TRUE, "", "list", ""), faults, activations)

\* execute_command
ExecuteCommand(request, faults, activations) ==
    IF ~Contains(request.command) \/ ~IsString(request.command)
    THEN Returned(Response(FALSE, "Missing required field: command", "", ""),
                  faults, activations)
    ELSE IF request.command.v = "activate"
    THEN HandleActivate(request, faults, activations)
    ELSE IF request.command.v = "deactivate"
    THEN HandleDeactivate(request, faults, activations)
    ELSE IF request.command.v = "deactivate_all"
    THEN HandleDeactivateAll(request, faults, activations)
    ELSE IF request.command.v = "status"
    THEN HandleStatus(request, faults, activations)
    ELSE IF request.command.v = "list"
    THEN HandleList(request, faults, activations)
    ELSE Returned(Response(FALSE, "Unknown command: ", "", ""), faults,
                  activations)

\* ControlCommand: the request and whether on_complete holds a callback;
\* id numbers the pushes.
ControlCommand(id, request, on_complete) ==
    [id |-> id, request |-> request, on_complete |-> on_complete]

InitControl ==
    /\ commands_ = <<>>
    /\ commands = <<>>
    /\ control_pc = "idle"
    /\ pushes = 0
    /\ executed = <<>>
    /\ completed = <<>>

\* CommandQueue::push, on the network thread, the whole body under mutex_
CommandPush(request, on_complete) ==
    /\ pushes < MaxCommands
    /\ pushes' = pushes + 1
    /\ commands_' = Append(commands_, ControlCommand(pushes + 1, request, on_complete))
    /\ UNCHANGED <<commands, control_pc, executed, completed>>

\* process_pending_commands: command_queue_.drain(), the swap under mutex_
ProcessDrain ==
    /\ control_pc = "idle"
    /\ commands' = commands_
    /\ commands_' = <<>>
    /\ control_pc' = "loop"
    /\ UNCHANGED <<pushes, executed, completed>>

\* process_pending_commands: one pass of the loop over the drained commands;
\* an exception of execute_command leaves the function and destroys the
\* drained vector.
ProcessCommand ==
    /\ control_pc = "loop"
    /\ commands # <<>>
    /\ \E r \in {ExecuteCommand(Head(commands).request, faults_, activations_)} :
          /\ faults_' = r.faults
          /\ activations_' = r.activations
          /\ activated_at' = IF r.activated # ""
                             THEN [activated_at EXCEPT ![r.activated] = on_tick_calls]
                             ELSE activated_at
          /\ activated_ok' = IF r.activated # ""
                             THEN [activated_ok EXCEPT ![r.activated] = @ + 1]
                             ELSE activated_ok
          /\ executed' = Append(executed, [id |-> Head(commands).id,
                                            request |-> Head(commands).request,
                                            on_complete |-> Head(commands).on_complete,
                                            thrown |-> r.thrown,
                                            response |-> r.response])
          /\ completed' = IF ~r.thrown /\ Head(commands).on_complete
                          THEN Append(completed, [id |-> Head(commands).id,
                                                  response |-> r.response])
                          ELSE completed
          /\ commands' = IF r.thrown THEN <<>> ELSE Tail(commands)
          /\ control_pc' = IF r.thrown THEN "thrown" ELSE "loop"
    /\ last_op' = [NoOp EXCEPT !.op = "execute_command"]
    /\ sequence' = NoSequence
    /\ UNCHANGED <<commands_, pushes, current_tick_, on_tick_calls>>

\* process_pending_commands returns when the loop is over.
ProcessReturn ==
    /\ control_pc = "loop"
    /\ commands = <<>>
    /\ control_pc' = "idle"
    /\ UNCHANGED <<commands_, commands, pushes, executed, completed>>

\* The requests the network thread pushes.
Requests ==
    { Request(JsonString("activate"), JsonString("latency-spike"), JsonAbsentObject,
              JsonAbsentNumber, JsonAbsentNumber),
      Request(JsonString("activate"), JsonString("memory-pressure"),
              JsonObject(JsonNumber(1)), JsonNumber(1), JsonNumber(1)),
      Request(JsonString("activate"), JsonString("latency-spike"), JsonAbsentObject,
              JsonStringForNumber, JsonAbsentNumber),
      Request(JsonString("activate"), JsonString("latency-spike"), JsonAbsentObject,
              JsonAbsentNumber, JsonStringForNumber),
      Request(JsonString("activate"), JsonString("latency-spike"),
              JsonObject(JsonStringForNumber), JsonAbsentNumber, JsonAbsentNumber),
      Request(JsonString("activate"), JsonString(UnknownFault), JsonAbsentObject,
              JsonAbsentNumber, JsonAbsentNumber),
      Request(JsonString("activate"), JsonAbsentString, JsonAbsentObject,
              JsonAbsentNumber, JsonAbsentNumber),
      Request(JsonString("activate"), JsonNumberForString, JsonAbsentObject,
              JsonAbsentNumber, JsonAbsentNumber),
      Request(JsonString("deactivate"), JsonString("latency-spike"), JsonAbsentObject,
              JsonAbsentNumber, JsonAbsentNumber),
      Request(JsonString("deactivate"), JsonAbsentString, JsonAbsentObject,
              JsonAbsentNumber, JsonAbsentNumber),
      Request(JsonString("deactivate_all"), JsonAbsentString, JsonAbsentObject,
              JsonAbsentNumber, JsonAbsentNumber),
      Request(JsonString("status"), JsonString(UnknownFault), JsonAbsentObject,
              JsonAbsentNumber, JsonAbsentNumber),
      Request(JsonString("list"), JsonAbsentString, JsonAbsentObject,
              JsonAbsentNumber, JsonAbsentNumber),
      Request(JsonString("restart"), JsonString("latency-spike"), JsonAbsentObject,
              JsonAbsentNumber, JsonAbsentNumber),
      Request(JsonAbsentString, JsonString("latency-spike"), JsonAbsentObject,
              JsonAbsentNumber, JsonAbsentNumber),
      Request(JsonNumberForString, JsonString("latency-spike"), JsonAbsentObject,
              JsonAbsentNumber, JsonAbsentNumber) }

(***************************************************************************)
(* SpellCastProcessor::process called once per tick, as Zone::tick calls   *)
(* it, on one entity map, with the tick numbers 0, 1, 2, ...               *)
(***************************************************************************)
CastSessions == {1, 2}

NoProcess ==
    [tick |-> -1, events |-> <<>>, before |-> EmptyMap,
     accepted_at |-> [s \in CastSessions |-> -1], spell_result |-> ZeroSpellResult]

InitCast ==
    /\ cast_entities = [s \in CastSessions |-> Entity(s, "PLAYER")]
    /\ cast_tick = 0
    /\ accepted_at = [s \in CastSessions |-> -1]
    /\ last_process = NoProcess

\* SpellCastProcessor::process(events, entities, current_tick).  A
\* CAST_START was accepted for the entities whose gcd_expires_tick the call
\* has set.
CastProcess(events) ==
    /\ cast_tick <= MaxCastTick
    /\ \E r \in {SpellCastProcess(events, cast_entities, cast_tick)} :
          /\ cast_entities' = r.entities
          /\ accepted_at' =
                [s \in CastSessions |->
                    IF r.entities[s].cast_state.gcd_expires_tick
                          # cast_entities[s].cast_state.gcd_expires_tick
                    THEN cast_tick ELSE accepted_at[s]]
          /\ last_process' = [tick |-> cast_tick, events |-> events,
                              before |-> cast_entities,
                              accepted_at |-> accepted_at,
                              spell_result |-> r.spell_result]
    /\ cast_tick' = cast_tick + 1

\* The batches of one tick: instant and timed casts of entity 1, an
\* interrupt, a cast of entity 2 and one of a session without entity.
CastBatches ==
    { <<>>,
      <<SpellCastEvent(1, "CAST_START", 7, 0)>>,
      <<SpellCastEvent(1, "CAST_START", 8, 2)>>,
      <<SpellCastEvent(1, "CAST_START", 7, 0), SpellCastEvent(1, "CAST_START", 8, 2)>>,
      <<SpellCastEvent(1, "CAST_START", 8, 2), SpellCastEvent(1, "INTERRUPT", 0, 0),
        SpellCastEvent(1, "CAST_START", 7, 0)>>,
      <<SpellCastEvent(3, "CAST_START", 7, 0), SpellCastEvent(2, "CAST_START", 7, 0),
        SpellCastEvent(1, "CAST_START", 8, 2)>>,
      <<SpellCastEvent(2, "CAST_START", 0, 2)>>,
      <<SpellCastEvent(2, "CAST_START", kU32Max, kU32Max)>> }

(***************************************************************************)
(* The three phases of Zone::tick on zone 1 with movement, spell cast and  *)
(* combat events: a player, an NPC set up as main.cpp sets up Hogger, and  *)
(* a second player, added to the zone directly.                            *)
(***************************************************************************)
Hogger ==
    [Entity(2, "NPC") EXCEPT !.combat_state.health = 150,
                             !.combat_state.max_health = 150,
                             !.combat_state.armor = 25,
                             !.combat_state.base_attack_damage = 15]

PipelineEntities == {Hogger, Entity(3, "PLAYER")}

PipelineEvents ==
    { MovementEvent(1, PosA),
      SpellCastEvent(1, "CAST_START", 7, 2),
      CombatEvent(1, 2, 60, "PHYSICAL"),
      CombatEvent(3, 1, 100, "PHYSICAL"),
      CombatEvent(3, 2, 200, "MAGICAL"),
      CombatEvent(1, 1, 120, "MAGICAL") }

\* tick_all with zone 1's pre-tick hook returning or throwing
PipelineTick(pre) ==
    TickAll([NoHooks EXCEPT ![1].pre = pre], <<1, 2>>)

(***************************************************************************)
(* The tick-scoped scenarios (src/server/fault/scenarios.cpp), called as   *)
(* the tests call them: activate(config), deactivate() and                 *)
(* on_tick(current_tick, zone) on a zone of the manager.                   *)
(***************************************************************************)
NoDispatch == [n |-> 0, fault |-> "", zone |-> 0, tick |-> 0, before |-> EmptyMap]

\* SessionCrashFault as constructed
NewSessionCrash == [active_ |-> FALSE, fired_ |-> FALSE, activations_ |-> 0]

\* CascadingZoneFailureFault as constructed
NewCascading ==
    [active_ |-> FALSE, activations_ |-> 0, source_zone_ |-> 1, target_zone_ |-> 2,
     flood_multiplier_ |-> 10, fired_crash_ |-> FALSE, source_crashed_ |-> FALSE]

\* ThunderingHerdFault as constructed
NewThunderingHerd ==
    [active_ |-> FALSE, activations_ |-> 0, reconnect_delay_ticks_ |-> 20,
     disconnect_tick_ |-> 0,
     disconnect_done_ |-> [z \in ZoneIds |-> FALSE],
     reconnect_done_ |-> [z \in ZoneIds |-> FALSE],
     stored_players_ |-> [z \in ZoneIds |-> {}]]

\* No dispatch since activate(); last_tick is the tick of the latest on_tick.
NoHerdHistory(last_tick) ==
    [last_tick |-> last_tick, first_tick |-> -1,
     dispatched |-> [z \in ZoneIds |-> FALSE],
     removed |-> [z \in ZoneIds |-> {}]]

InitScenario ==
    /\ session_crash = NewSessionCrash
    /\ crash_removed = 0
    /\ scenario_calls = 0
    /\ last_dispatch = NoDispatch
    /\ cascading = NewCascading
    /\ since_activation = [ticks |-> 0, direct |-> FALSE]
    /\ herd = NewThunderingHerd
    /\ herd_history = NoHerdHistory(0)

\* SessionCrashFault::activate
SessionCrashActivate ==
    /\ scenario_calls < MaxScenarioCalls
    /\ session_crash' = [session_crash EXCEPT !.active_ = TRUE, !.fired_ = FALSE,
                                              !.activations_ = @ + 1]
    /\ crash_removed' = 0
    /\ scenario_calls' = scenario_calls + 1
    /\ UNCHANGED <<last_dispatch, cascading, since_activation>>

\* SessionCrashFault::deactivate
SessionCrashDeactivate ==
    /\ scenario_calls < MaxScenarioCalls
    /\ session_crash' = [session_crash EXCEPT !.active_ = FALSE, !.fired_ = FALSE]
    /\ scenario_calls' = scenario_calls + 1
    /\ UNCHANGED <<crash_removed, last_dispatch, cascading, since_activation>>

\* SessionCrashFault::on_tick on the fault and the zone; `first` is the key
\* entities.begin() yields, any key of the unordered_map.
SessionCrashOnTickKeepsFiring(fault, zone, first) ==
    IF ~fault.active_ \/ fault.fired_
    THEN [fault |-> fault, zone |-> zone]
    ELSE IF DOMAIN zone.entities_ = {}
    THEN [fault |-> fault, zone |-> zone]
    ELSE [fault |-> fault, zone |-> ZoneRemoveEntity(zone, first)]

SessionCrashOnTickOf(fault, zone, first) ==
    IF ~fault.active_ \/ fault.fired_
    THEN [fault |-> fault, zone |-> zone]
    ELSE IF DOMAIN zone.entities_ = {}
    THEN [fault |-> fault, zone |-> zone]
    ELSE [fault |-> [fault EXCEPT !.fired_ = TRUE],
          zone |-> ZoneRemoveEntity(zone, first)]

\* The keys begin() of a map can yield (0 stands for end() of an empty map).
Begin(map) == IF DOMAIN map = {} THEN {0} ELSE DOMAIN map

\* SessionCrashFault::on_tick(current_tick, &zone)
SessionCrashOnTick(zone_id) ==
    /\ scenario_calls < MaxScenarioCalls
    /\ \E first \in Begin(zones_[zone_id].entities_) :
       \E r \in {SessionCrashOnTickOf(session_crash, zones_[zone_id], first)} :
          /\ session_crash' = r.fault
          /\ zones_' = [zones_ EXCEPT ![zone_id] = r.zone]
          /\ crash_removed' = crash_removed
                                 + Cardinality(DOMAIN zones_[zone_id].entities_)
                                 - Cardinality(DOMAIN r.zone.entities_)
    /\ last_dispatch' = [n |-> last_dispatch.n + 1, fault |-> "session-crash",
                         zone |-> zone_id, tick |-> next_tick,
                         before |-> zones_[zone_id].entities_]
    /\ scenario_calls' = scenario_calls + 1
    /\ UNCHANGED <<session_zone_map_, next_tick, last_result, last_hooks,
                   cascading, since_activation>>

\* CascadingZoneFailureFault::activate with the default configuration
CascadingActivate ==
    /\ scenario_calls < MaxScenarioCalls
    /\ cascading' = [cascading EXCEPT !.active_ = TRUE, !.fired_crash_ = FALSE,
                                      !.source_crashed_ = FALSE,
                                      !.activations_ = @ + 1,
                                      !.source_zone_ = 1, !.target_zone_ = 2,
                                      !.flood_multiplier_ = 10]
    /\ since_activation' = [ticks |-> 0, direct |-> FALSE]
    /\ scenario_calls' = scenario_calls + 1
    /\ UNCHANGED <<session_crash, crash_removed, last_dispatch>>

\* CascadingZoneFailureFault::deactivate
CascadingDeactivate ==
    /\ scenario_calls < MaxScenarioCalls
    /\ cascading' = [cascading EXCEPT !.active_ = FALSE, !.fired_crash_ = FALSE,
                                      !.source_crashed_ = FALSE]
    /\ scenario_calls' = scenario_calls + 1
    /\ UNCHANGED <<session_crash, crash_removed, last_dispatch, since_activation>>

\* Phase 2 of on_tick: the events pushed for the entities `ids` still to be
\* walked (in ascending id order), i counting the events pushed so far.
RECURSIVE FloodEvents(_, _, _, _)
FloodEvents(ids, i, multiplier, current_tick) ==
    IF ids = {} THEN <<>>
    ELSE LET session_id == Min(ids)
             OfEntity ==
                 [m \in 1..multiplier |->
                     MovementEvent(session_id,
                         <<(current_tick * 31 + (i + m - 1) * 7 + session_id) % 1000,
                           (current_tick * 13 + (i + m - 1) * 11 + session_id) % 1000,
                           0>>)]
         IN OfEntity \o FloodEvents(ids \ {session_id}, i + multiplier, multiplier,
                                    current_tick)

\* CascadingZoneFailureFault::on_tick(current_tick, &zone)
CascadingOnTickOf(fault, zone, current_tick) ==
    IF ~fault.active_
    THEN [fault |-> fault, zone |-> zone, thrown |-> FALSE]
    ELSE IF zone.zone_id = fault.source_zone_ /\ ~fault.fired_crash_
    THEN [fault |-> [fault EXCEPT !.fired_crash_ = TRUE, !.source_crashed_ = TRUE],
          zone |-> zone, thrown |-> TRUE]
    ELSE IF zone.zone_id = fault.target_zone_ /\ fault.source_crashed_
    THEN [fault |-> fault,
          zone |-> [zone EXCEPT !.event_queue_ =
                       @ \o FloodEvents(DOMAIN zone.entities_, 0,
                                        fault.flood_multiplier_, current_tick)],
          thrown |-> FALSE]
    ELSE [fault |-> fault, zone |-> zone, thrown |-> FALSE]

\* on_tick(current_tick, &zone) called on the fault itself
CascadingOnTick(zone_id) ==
    /\ scenario_calls < MaxScenarioCalls
    /\ \E r \in {CascadingOnTickOf(cascading, zones_[zone_id], next_tick)} :
          /\ cascading' = r.fault
          /\ zones_' = [zones_ EXCEPT ![zone_id] = r.zone]
    /\ last_dispatch' = [n |-> last_dispatch.n + 1, fault |-> "cascading-zone-failure",
                         zone |-> zone_id, tick |-> next_tick,
                         before |-> zones_[zone_id].entities_]
    /\ since_activation' = [since_activation EXCEPT !.direct = TRUE]
    /\ scenario_calls' = scenario_calls + 1
    /\ UNCHANGED <<session_zone_map_, next_tick, last_result, last_hooks,
                   session_crash, crash_removed>>

\* The pre-tick hook main.cpp installs on each zone calls
\* FaultRegistry::execute_pre_tick_faults(zone), whose body is empty: the
\* hook returns and calls no scenario.
DriverHooks == [z \in ZoneIds |-> [pre |-> "OK", post |-> "OK"]]

\* The tick callback of main.cpp with no session event and no command
\* waiting: fault_registry.on_tick(tick), which calls AMBIENT faults only,
\* then zone_manager.tick_all(tick).
CascadeDriverTick(order) ==
    /\ TickAll(DriverHooks, order)
    /\ since_activation' = [since_activation EXCEPT !.ticks = @ + 1]
    /\ UNCHANGED <<session_crash, crash_removed, scenario_calls, last_dispatch,
                   cascading>>

\* The ticks on_tick is called with, in non-decreasing order
HerdTicks == {0, 1, 3, 21}

\* params.reconnect_delay_ticks of the activation; 0 stands for a
\* configuration without the member
HerdDelays == {0, 2}

HerdEntities == {Hogger, Entity(3, "PLAYER")}

\* ThunderingHerdFault::activate
ThunderingHerdActivate(delay) ==
    /\ scenario_calls < MaxScenarioCalls
    /\ herd' = [NewThunderingHerd EXCEPT
                   !.active_ = TRUE,
                   !.activations_ = herd.activations_ + 1,
                   !.reconnect_delay_ticks_ = IF delay # 0 THEN delay ELSE 20]
    /\ herd_history' = NoHerdHistory(herd_history.last_tick)
    /\ scenario_calls' = scenario_calls + 1

\* ThunderingHerdFault::deactivate
ThunderingHerdDeactivate ==
    /\ scenario_calls < MaxScenarioCalls
    /\ herd' = [herd EXCEPT !.active_ = FALSE, !.disconnect_tick_ = 0,
                            !.disconnect_done_ = [z \in ZoneIds |-> FALSE],
                            !.reconnect_done_ = [z \in ZoneIds |-> FALSE],
                            !.stored_players_ = [z \in ZoneIds |-> {}]]
    /\ herd_history' = NoHerdHistory(herd_history.last_tick)
    /\ scenario_calls' = scenario_calls + 1

Players(zone) ==
    {sid \in DOMAIN zone.entities_ : zone.entities_[sid].entity_type = "PLAYER"}

RECURSIVE HerdRemove(_, _)
HerdRemove(zone, ids) ==
    IF ids = {} THEN zone
    ELSE HerdRemove(ZoneRemoveEntity(zone, Min(ids)), ids \ {Min(ids)})

RECURSIVE HerdReconnect(_, _)
HerdReconnect(zone, ids) ==
    IF ids = {} THEN zone
    ELSE HerdReconnect(ZoneAddEntity(zone, Entity(Min(ids), "PLAYER")).zone,
                       ids \ {Min(ids)})

\* ThunderingHerdFault::on_tick(current_tick, &zone)
ThunderingHerdOnTickOf(fault, zone, current_tick) ==
    LET zid == zone.zone_id IN
    IF ~fault.active_
    THEN [fault |-> fault, zone |-> zone]
    ELSE IF ~fault.disconnect_done_[zid]
    THEN [fault |-> [fault EXCEPT
                        !.disconnect_done_[zid] = TRUE,
                        !.disconnect_tick_ = IF @ = 0 THEN current_tick ELSE @,
                        !.stored_players_[zid] = Players(zone)],
          zone |-> HerdRemove(zone, Players(zone))]
    ELSE IF /\ ~fault.reconnect_done_[zid]
            /\ fault.disconnect_tick_ > 0
            /\ current_tick >= fault.disconnect_tick_ + fault.reconnect_delay_ticks_
    THEN [fault |-> [fault EXCEPT !.reconnect_done_[zid] = TRUE],
          zone |-> HerdReconnect(zone, fault.stored_players_[zid])]
    ELSE [fault |-> fault, zone |-> zone]

\* on_tick(current_tick, &zone) called on the fault
ThunderingHerdOnTick(zone_id, current_tick) ==
    /\ scenario_calls < MaxScenarioCalls
    /\ current_tick >= herd_history.last_tick
    /\ \E r \in {ThunderingHerdOnTickOf(herd, zones_[zone_id], current_tick)} :
          /\ herd' = r.fault
          /\ zones_' = [zones_ EXCEPT ![zone_id] = r.zone]
    /\ herd_history' =
          IF ~herd.active_
          THEN [herd_history EXCEPT !.last_tick = current_tick]
          ELSE [herd_history EXCEPT
                   !.last_tick = current_tick,
                   !.first_tick = IF @ = -1 THEN current_tick ELSE @,
                   !.dispatched[zone_id] = TRUE,
                   !.removed[zone_id] =
                       IF herd_history.dispatched[zone_id] THEN @
                       ELSE Players(zones_[zone_id])]
    /\ last_dispatch' = [n |-> last_dispatch.n + 1, fault |-> "thundering-herd",
                         zone |-> zone_id, tick |-> current_tick,
                         before |-> EmptyMap]
    /\ scenario_calls' = scenario_calls + 1
    /\ UNCHANGED <<session_zone_map_, next_tick, last_result, last_hooks>>

(***************************************************************************)
(* The driver (src/server/main.cpp): the tick callback on the simulation   *)
(* thread, and the network threads that feed the drain queues.             *)
(***************************************************************************)
SessionNotification(type, session_id) == [type |-> type, session_id |-> session_id]

NothingDrained == [sessions |-> <<>>, commands |-> <<>>]

InitDriver ==
    /\ session_events = <<>>
    /\ net_calls = 0
    /\ shutdown_requested = FALSE
    /\ driver_pc = "top"
    /\ driver_log = <<>>
    /\ driver_drained = NothingDrained
    /\ socket_writes = 0
    /\ step_thread = "simulation"

\* SessionEventQueue::push, on the network thread, the body under mutex_
SessionEventPush(event) ==
    /\ net_calls < MaxNetCalls
    /\ net_calls' = net_calls + 1
    /\ session_events' = Append(session_events, event)
    /\ step_thread' = "network"
    /\ UNCHANGED <<shutdown_requested, driver_pc, driver_log, driver_drained,
                   socket_writes>>

\* What the read handler of do_read_line does with one line: a line that
\* parses is pushed onto the command queue with its response callback, a
\* line that does not is answered on the socket at once.
DoReadLineExecutesInline(parses, request, queue, next_id, faults, activations) ==
    IF parses
    THEN LET r == ExecuteCommand(request, faults, activations)
         IN [queue |-> queue, faults |-> r.faults, activations |-> r.activations,
             written |-> 1]
    ELSE [queue |-> queue, faults |-> faults, activations |-> activations,
          written |-> 1]

DoReadLineOf(parses, request, queue, next_id, faults, activations) ==
    IF parses
    THEN [queue |-> Append(queue, ControlCommand(next_id, request, TRUE)),
          faults |-> faults, activations |-> activations, written |-> 0]
    ELSE [queue |-> queue, faults |-> faults, activations |-> activations,
          written |-> 1]

\* ControlChannel::do_read_line: the completion handler, on the network thread
DoReadLine(parses, request) ==
    /\ net_calls < MaxNetCalls
    /\ net_calls' = net_calls + 1
    /\ \E r \in {DoReadLineOf(parses, request, commands_, pushes + 1,
                              faults_, activations_)} :
          /\ commands_' = r.queue
          /\ pushes' = IF parses THEN pushes + 1 ELSE pushes
          /\ faults_' = r.faults
          /\ activations_' = r.activations
          /\ socket_writes' = socket_writes + r.written
    /\ step_thread' = "network"
    /\ UNCHANGED <<commands, control_pc, executed, completed, current_tick_,
                   on_tick_calls, activated_at, activated_ok, last_op, sequence,
                   session_events, shutdown_requested, driver_pc, driver_log,
                   driver_drained>>

\* The write the response callback posted to the io_context, run by the
\* network thread
PostedWrite ==
    /\ socket_writes < Len(completed) + (net_calls - pushes)
    /\ socket_writes' = socket_writes + 1
    /\ step_thread' = "network"
    /\ UNCHANGED <<session_events, net_calls, shutdown_requested, driver_pc,
                   driver_log, driver_drained>>

\* signal_handler
RequestShutdown ==
    /\ ~shutdown_requested
    /\ shutdown_requested' = TRUE
    /\ step_thread' = "signal"
    /\ UNCHANGED <<session_events, net_calls, driver_pc, driver_log,
                   driver_drained, socket_writes>>

\* ZoneManager::remove_session on the two maps
RemoveSessionOf(session_id, zones, map) ==
    IF session_id \notin DOMAIN map
    THEN [zones |-> zones, map |-> map]
    ELSE [zones |-> IF map[session_id] \in DOMAIN zones
                    THEN [zones EXCEPT ![map[session_id]] =
                             ZoneRemoveEntity(@, session_id)]
                    ELSE zones,
          map |-> MapErase(map, session_id)]

\* Step 1 of the callback: the loop over the drained notifications
RECURSIVE DriverSessionLoop(_, _, _, _)
DriverSessionLoop(evts, i, zones, map) ==
    IF i > Len(evts) THEN [zones |-> zones, map |-> map]
    ELSE IF evts[i].type = "CONNECTED"
    THEN LET target == IF evts[i].session_id % 2 = 1 THEN 1 ELSE 2
             r == AssignSessionOf(evts[i].session_id, target, zones, map)
         IN DriverSessionLoop(evts, i + 1, r.zones, r.map)
    ELSE LET r == RemoveSessionOf(evts[i].session_id, zones, map)
         IN DriverSessionLoop(evts, i + 1, r.zones, r.map)

\* The callback begins: the shutdown test, then step 1.
DriverSessions ==
    /\ driver_pc = "top"
    /\ next_tick < MaxTicks
    /\ step_thread' = "simulation"
    /\ IF shutdown_requested
       THEN /\ driver_pc' = "stopped"
            /\ driver_log' = <<>>
            /\ driver_drained' = NothingDrained
            /\ UNCHANGED <<zones_, session_zone_map_, session_events>>
       ELSE /\ \E r \in {DriverSessionLoop(session_events, 1, zones_,
                                           session_zone_map_)} :
                  /\ zones_' = r.zones
                  /\ session_zone_map_' = r.map
            /\ session_events' = <<>>
            /\ driver_drained' = [sessions |-> session_events, commands |-> <<>>]
            /\ driver_log' = <<"sessions">>
            /\ driver_pc' = "commands"
    /\ UNCHANGED <<next_tick, last_result, last_hooks, net_calls,
                   shutdown_requested, socket_writes>>

\* Step 2: control.process_pending_commands(), its drain
DriverProcessDrain ==
    /\ driver_pc = "commands"
    /\ ProcessDrain
    /\ driver_drained' = [driver_drained EXCEPT !.commands = commands_]
    /\ step_thread' = "simulation"
    /\ UNCHANGED <<session_events, net_calls, shutdown_requested, driver_pc,
                   driver_log, socket_writes>>

\* Step 2: one pass of its loop; an exception leaves the callback and the
\* game loop, which has no handler.
DriverProcessCommand ==
    /\ driver_pc = "commands"
    /\ ProcessCommand
    /\ driver_pc' = IF control_pc' = "thrown" THEN "terminated" ELSE driver_pc
    /\ step_thread' = "simulation"
    /\ UNCHANGED <<session_events, net_calls, shutdown_requested, driver_log,
                   driver_drained, socket_writes>>

\* Step 2 returns.
DriverProcessReturn ==
    /\ driver_pc = "commands"
    /\ ProcessReturn
    /\ driver_pc' = "faults"
    /\ driver_log' = Append(driver_log, "commands")
    /\ step_thread' = "simulation"
    /\ UNCHANGED <<session_events, net_calls, shutdown_requested, driver_drained,
                   socket_writes>>

\* Step 3: fault_registry.on_tick(tick)
DriverFaults ==
    /\ driver_pc = "faults"
    /\ OnTick
    /\ driver_pc' = "zones"
    /\ driver_log' = Append(driver_log, "faults")
    /\ step_thread' = "simulation"
    /\ UNCHANGED <<session_events, net_calls, shutdown_requested, driver_drained,
                   socket_writes>>

\* Step 4: zone_manager.tick_all(tick); the callback returns.
DriverZones(order) ==
    /\ driver_pc = "zones"
    /\ TickAll(DriverHooks, order)
    /\ driver_pc' = "top"
    /\ driver_log' = Append(driver_log, "zones")
    /\ step_thread' = "simulation"
    /\ UNCHANGED <<session_events, net_calls, shutdown_requested, driver_drained,
                   socket_writes>>

\* The notifications and the lines the network threads deliver
DriverNotifications ==
    {SessionNotification("CONNECTED", 3), SessionNotification("DISCONNECTED", 3),
     SessionNotification("DISCONNECTED", 1)}

DriverRequests ==
    { Request(JsonString("activate"), JsonString("latency-spike"), JsonAbsentObject,
              JsonAbsentNumber, JsonNumber(1)),
      Request(JsonString("activate"), JsonString("latency-spike"), JsonAbsentObject,
              JsonAbsentNumber, JsonStringForNumber),
      Request(JsonString("deactivate"), JsonString("latency-spike"), JsonAbsentObject,
              JsonAbsentNumber, JsonAbsentNumber) }

\* The activations with a duration a control client sends
DurationRequests ==
    { Request(JsonString("activate"), JsonString("latency-spike"), JsonAbsentObject,
              JsonAbsentNumber, JsonNumber(1)),
      Request(JsonString("activate"), JsonString("latency-spike"), JsonAbsentObject,
              JsonAbsentNumber, JsonNumber(2)),
      Request(JsonString("activate"), JsonString("latency-spike"), JsonAbsentObject,
              JsonAbsentNumber, JsonNumber(3)),
      Request(JsonString("activate"), JsonString("memory-pressure"), JsonAbsentObject,
              JsonAbsentNumber, JsonNumber(2)) }

(***************************************************************************)
(* GameLoop::loop_body with the clock (game_loop.cpp 73-106).  Time is     *)
(* counted in units; tick_interval_ is two of them.                        *)
(***************************************************************************)
tick_interval_ == 2

InitTiming ==
    /\ clock = 0
    /\ timing_pc = "top"
    /\ tick_metrics = <<>>

\* bool overrun = elapsed > tick_interval_;
Overrun(elapsed) == elapsed > tick_interval_

\* if (!overrun) sleep_for(tick_interval_ - elapsed): the time asked for.
NeverSleeps(overrun, elapsed) == 0

SleepFor(overrun, elapsed) ==
    IF ~overrun THEN tick_interval_ - elapsed ELSE 0

\* tick_start = now(); execute_tick(); tick_end = now(); the metric is
\* logged.  The callbacks take `took` units.
TimedExecuteTick(took) ==
    /\ timing_pc = "top"
    /\ Len(tick_metrics) < MaxTimedTicks
    /\ LET tick_start == clock
           tick_end == clock + took
           elapsed == tick_end - tick_start
       IN /\ clock' = tick_end
          /\ tick_metrics' = Append(tick_metrics,
                 [tick |-> Len(tick_metrics), tick_start |-> tick_start,
                  tick_end |-> tick_end, duration |-> elapsed,
                  overrun |-> Overrun(elapsed)])
    /\ timing_pc' = "measured"

\* The end of the iteration: the sleep, if there is one, which lasts at
\* least as long as asked and `late` units more.
TimedSleep(late) ==
    /\ timing_pc = "measured"
    /\ LET m == tick_metrics[Len(tick_metrics)]
       IN /\ m.overrun => late = 0
          /\ clock' = clock + SleepFor(m.overrun, m.duration) + late
    /\ timing_pc' = "top"
    /\ UNCHANGED tick_metrics

(***************************************************************************)
(* The specifications.  Each one runs one part and leaves the variables of *)
(* the other parts as Init sets them.                                      *)
(***************************************************************************)
Init == InitZone /\ InitQueue /\ InitLoop /\ InitFault /\ InitSession
        /\ InitManager /\ InitControl /\ InitCast
        /\ InitScenario /\ InitDriver /\ InitTiming

NextZone ==
    \/ \E e \in ZoneEvents :
          PushEvent(session_zone_map_[e.session_id], e)
          /\ UNCHANGED <<qvars, lvars, fvars, svars, mvars, cvars, pvars, xvars, hvars, dvars, tvars>>
    \/ \E h \in [ZoneIds -> HookChoices], o \in IterationOrders(DOMAIN zones_) :
          TickAll(h, o) /\ UNCHANGED <<qvars, lvars, fvars, svars, mvars, cvars, pvars, xvars, hvars, dvars, tvars>>

SpecZone == Init /\ [][NextZone]_vars

NextQueue ==
    \/ \E t \in QueueThreads : QueueLock(t) /\ UNCHANGED <<zvars, lvars, fvars, svars, mvars, cvars, pvars, xvars, hvars, dvars, tvars>>
    \/ \E p \in Producers : QueuePushBack(p) /\ UNCHANGED <<zvars, lvars, fvars, svars, mvars, cvars, pvars, xvars, hvars, dvars, tvars>>
    \/ \E p \in Producers : QueuePushReturn(p) /\ UNCHANGED <<zvars, lvars, fvars, svars, mvars, cvars, pvars, xvars, hvars, dvars, tvars>>
    \/ QueueDrainSwap /\ UNCHANGED <<zvars, lvars, fvars, svars, mvars, cvars, pvars, xvars, hvars, dvars, tvars>>
    \/ QueueDrainReturn /\ UNCHANGED <<zvars, lvars, fvars, svars, mvars, cvars, pvars, xvars, hvars, dvars, tvars>>

SpecQueue == Init /\ [][NextQueue]_vars

NextLoop ==
    \/ \E c \in Starters : StartCall(c) /\ UNCHANGED <<zvars, qvars, fvars, svars, mvars, cvars, pvars, xvars, hvars, dvars, tvars>>
    \/ \E c \in Starters : StartSpawn(c) /\ UNCHANGED <<zvars, qvars, fvars, svars, mvars, cvars, pvars, xvars, hvars, dvars, tvars>>
    \/ \E c \in Starters : RunCall(c) /\ UNCHANGED <<zvars, qvars, fvars, svars, mvars, cvars, pvars, xvars, hvars, dvars, tvars>>
    \/ \E t \in LoopThreads : LoopCheck(t) /\ UNCHANGED <<zvars, qvars, fvars, svars, mvars, cvars, pvars, xvars, hvars, dvars, tvars>>
    \/ \E t \in LoopThreads : LoopFetch(t) /\ UNCHANGED <<zvars, qvars, fvars, svars, mvars, cvars, pvars, xvars, hvars, dvars, tvars>>
    \/ \E t \in LoopThreads, calls_stop \in BOOLEAN :
          LoopCallback(t, calls_stop) /\ UNCHANGED <<zvars, qvars, fvars, svars, mvars, cvars, pvars, xvars, hvars, dvars, tvars>>
    \/ \E c \in Callers : StopCall(c) /\ UNCHANGED <<zvars, qvars, fvars, svars, mvars, cvars, pvars, xvars, hvars, dvars, tvars>>
    \/ \E t \in StopThreads : StopJoinable(t) /\ UNCHANGED <<zvars, qvars, fvars, svars, mvars, cvars, pvars, xvars, hvars, dvars, tvars>>
    \/ \E t \in StopThreads : StopJoin(t) /\ UNCHANGED <<zvars, qvars, fvars, svars, mvars, cvars, pvars, xvars, hvars, dvars, tvars>>

SpecLoop == Init /\ [][NextLoop]_vars

NextFault ==
    \/ \E id \in FaultIds \cup {UnknownFault}, config \in FaultConfigs :
          Activate(id, config) /\ UNCHANGED <<zvars, qvars, lvars, svars, mvars, cvars, pvars, xvars, hvars, dvars, tvars>>
    \/ \E id \in FaultIds \cup {UnknownFault} :
          Deactivate(id) /\ UNCHANGED <<zvars, qvars, lvars, svars, mvars, cvars, pvars, xvars, hvars, dvars, tvars>>
    \/ DeactivateAll /\ UNCHANGED <<zvars, qvars, lvars, svars, mvars, cvars, pvars, xvars, hvars, dvars, tvars>>
    \/ OnTick /\ UNCHANGED <<zvars, qvars, lvars, svars, mvars, cvars, pvars, xvars, hvars, dvars, tvars>>
    \/ \E z \in ZoneIds : ExecutePreTickFaults(z) /\ UNCHANGED <<zvars, qvars, lvars, svars, mvars, cvars, pvars, xvars, hvars, dvars, tvars>>

SpecFault == Init /\ [][NextFault]_vars

\* The calls made on the manager.  Sessions 1 and 2 are assigned at the
\* start, session 3 is not; zone 3 does not exist.
AssignCalls == {<<3, 1>>, <<3, 3>>, <<2, 1>>}

RemoveCalls == {2, 3}

TransferCalls == {1, 2} \X {1, 2}

\* The intake batches routed: one with an event of session 3, a null entry,
\* a move and a cast of session 2 and an attack of session 1 on session 2;
\* one with a move of session 1.
Batches ==
    {<<MovementEvent(3, PosA), NullEvent, MovementEvent(2, PosB),
       SpellCastEvent(2, "CAST_START", 7, 2), CombatEvent(1, 2, 10, "PHYSICAL")>>,
     <<MovementEvent(1, PosA)>>}

DirectEntities == {Entity(2, "NPC")}

NextManager ==
    \/ \E c \in AssignCalls :
          AssignSession(c[1], c[2]) /\ UNCHANGED <<qvars, lvars, fvars, svars, cvars, pvars, xvars, hvars, dvars, tvars>>
    \/ \E sid \in RemoveCalls :
          RemoveSession(sid) /\ UNCHANGED <<qvars, lvars, fvars, svars, cvars, pvars, xvars, hvars, dvars, tvars>>
    \/ \E c \in TransferCalls :
          TransferSession(c[1], c[2]) /\ UNCHANGED <<qvars, lvars, fvars, svars, cvars, pvars, xvars, hvars, dvars, tvars>>
    \/ \E batch \in Batches :
          RouteEvents(batch) /\ UNCHANGED <<qvars, lvars, fvars, svars, cvars, pvars, xvars, hvars, dvars, tvars>>
    \/ \E e \in DirectEntities :
          AddEntity(1, e) /\ UNCHANGED <<qvars, lvars, fvars, svars, cvars, pvars, xvars, hvars, dvars, tvars>>
    \/ \E o \in IterationOrders(DOMAIN zones_) :
          ManagerTickAll(o) /\ UNCHANGED <<qvars, lvars, fvars, svars, cvars, pvars, xvars, hvars, dvars, tvars>>

SpecManager == Init /\ [][NextManager]_vars

NextPipeline ==
    \/ \E event \in PipelineEvents :
          PushEvent(1, event)
          /\ UNCHANGED <<qvars, lvars, fvars, svars, mvars, cvars, pvars, xvars, hvars, dvars, tvars>>
    \/ \E entity \in PipelineEntities :
          AddEntity(1, entity) /\ UNCHANGED <<qvars, lvars, fvars, svars, cvars, pvars, xvars, hvars, dvars, tvars>>
    \/ \E pre \in {"OK", "THROW_STD"} :
          PipelineTick(pre)
          /\ UNCHANGED <<qvars, lvars, fvars, svars, mvars, cvars, pvars, xvars, hvars, dvars, tvars>>

SpecPipeline == Init /\ [][NextPipeline]_vars

\* Attacks as EventParser accepts them: base_damage is any int32.
CombatEvents ==
    { CombatEvent(1, 2, 60, "PHYSICAL"), CombatEvent(2, 1, 100, "MAGICAL"),
      CombatEvent(1, 1, -50, "PHYSICAL"), CombatEvent(1, 2, 0, "MAGICAL"),
      CombatEvent(3, 2, -1, "PHYSICAL") }

NextCombat ==
    \/ \E event \in CombatEvents :
          PushEvent(1, event)
          /\ UNCHANGED <<qvars, lvars, fvars, svars, mvars, cvars, pvars, xvars, hvars, dvars, tvars>>
    \/ \E entity \in PipelineEntities :
          AddEntity(1, entity) /\ UNCHANGED <<qvars, lvars, fvars, svars, cvars, pvars, xvars, hvars, dvars, tvars>>
    \/ PipelineTick("OK")
          /\ UNCHANGED <<qvars, lvars, fvars, svars, mvars, cvars, pvars, xvars, hvars, dvars, tvars>>

SpecCombat == Init /\ [][NextCombat]_vars

NextSessionCrash ==
    \/ SessionCrashActivate
          /\ UNCHANGED <<zvars, qvars, lvars, fvars, svars, mvars, cvars, pvars, hvars, dvars, tvars>>
    \/ SessionCrashDeactivate
          /\ UNCHANGED <<zvars, qvars, lvars, fvars, svars, mvars, cvars, pvars, hvars, dvars, tvars>>
    \/ \E z \in ZoneIds :
          SessionCrashOnTick(z)
          /\ UNCHANGED <<qvars, lvars, fvars, svars, mvars, cvars, pvars, hvars, dvars, tvars>>
    \/ \E entity \in PipelineEntities :
          AddEntity(1, entity)
          /\ UNCHANGED <<qvars, lvars, fvars, svars, cvars, pvars, xvars, hvars, dvars, tvars>>

SpecSessionCrash == Init /\ [][NextSessionCrash]_vars

NextCascade ==
    \/ CascadingActivate
          /\ UNCHANGED <<zvars, qvars, lvars, fvars, svars, mvars, cvars, pvars, hvars, dvars, tvars>>
    \/ CascadingDeactivate
          /\ UNCHANGED <<zvars, qvars, lvars, fvars, svars, mvars, cvars, pvars, hvars, dvars, tvars>>
    \/ \E z \in ZoneIds :
          CascadingOnTick(z)
          /\ UNCHANGED <<qvars, lvars, fvars, svars, mvars, cvars, pvars, hvars, dvars, tvars>>
    \/ \E o \in IterationOrders(ZoneIds) :
          CascadeDriverTick(o)
          /\ UNCHANGED <<qvars, lvars, fvars, svars, mvars, cvars, pvars, hvars, dvars, tvars>>
    \/ \E entity \in PipelineEntities :
          AddEntity(2, entity)
          /\ UNCHANGED <<qvars, lvars, fvars, svars, cvars, pvars, xvars, hvars, dvars, tvars>>

SpecCascade == Init /\ [][NextCascade]_vars

NextHerd ==
    \/ \E delay \in HerdDelays :
          ThunderingHerdActivate(delay)
          /\ UNCHANGED <<zvars, qvars, lvars, fvars, svars, mvars, cvars, pvars,
                         session_crash, crash_removed, last_dispatch, cascading,
                         since_activation, dvars, tvars>>
    \/ ThunderingHerdDeactivate
          /\ UNCHANGED <<zvars, qvars, lvars, fvars, svars, mvars, cvars, pvars,
                         session_crash, crash_removed, last_dispatch, cascading,
                         since_activation, dvars, tvars>>
    \/ \E z \in ZoneIds, t \in HerdTicks :
          ThunderingHerdOnTick(z, t)
          /\ UNCHANGED <<qvars, lvars, fvars, svars, mvars, cvars, pvars,
                         session_crash, crash_removed, cascading, since_activation, dvars, tvars>>
    \/ \E entity \in HerdEntities :
          AddEntity(1, entity)
          /\ UNCHANGED <<qvars, lvars, fvars, svars, cvars, pvars, xvars, hvars, dvars, tvars>>

SpecHerd == Init /\ [][NextHerd]_vars

NextDriver ==
    \/ \E event \in DriverNotifications :
          SessionEventPush(event)
          /\ UNCHANGED <<zvars, qvars, lvars, fvars, svars, mvars, cvars, pvars,
                         xvars, hvars, tvars>>
    \/ \E parses \in BOOLEAN, request \in DriverRequests :
          DoReadLine(parses, request)
          /\ UNCHANGED <<zvars, qvars, lvars, svars, mvars, pvars, xvars, hvars, tvars>>
    \/ PostedWrite
          /\ UNCHANGED <<zvars, qvars, lvars, fvars, svars, mvars, cvars, pvars,
                         xvars, hvars, tvars>>
    \/ RequestShutdown
          /\ UNCHANGED <<zvars, qvars, lvars, fvars, svars, mvars, cvars, pvars,
                         xvars, hvars, tvars>>
    \/ DriverSessions
          /\ UNCHANGED <<qvars, lvars, fvars, svars, mvars, cvars, pvars, xvars,
                         hvars, tvars>>
    \/ DriverProcessDrain
          /\ UNCHANGED <<zvars, qvars, lvars, fvars, svars, mvars, pvars, xvars,
                         hvars, tvars>>
    \/ DriverProcessCommand
          /\ UNCHANGED <<zvars, qvars, lvars, svars, mvars, pvars, xvars, hvars, tvars>>
    \/ DriverProcessReturn
          /\ UNCHANGED <<zvars, qvars, lvars, fvars, svars, mvars, pvars, xvars,
                         hvars, tvars>>
    \/ DriverFaults
          /\ UNCHANGED <<zvars, qvars, lvars, svars, mvars, cvars, pvars, xvars,
                         hvars, tvars>>
    \/ \E o \in IterationOrders(ZoneIds) :
          DriverZones(o)
          /\ UNCHANGED <<qvars, lvars, fvars, svars, mvars, cvars, pvars, xvars,
                         hvars, tvars>>

SpecDriver == Init /\ [][NextDriver]_vars

NextControl ==
    \/ \E request \in Requests, on_complete \in BOOLEAN :
          CommandPush(request, on_complete)
          /\ UNCHANGED <<zvars, qvars, lvars, fvars, svars, mvars, pvars, xvars, hvars, dvars, tvars>>
    \/ ProcessDrain /\ UNCHANGED <<zvars, qvars, lvars, fvars, svars, mvars, pvars, xvars, hvars, dvars, tvars>>
    \/ ProcessCommand /\ UNCHANGED <<zvars, qvars, lvars, svars, mvars, pvars, xvars, hvars, dvars, tvars>>
    \/ ProcessReturn /\ UNCHANGED <<zvars, qvars, lvars, fvars, svars, mvars, pvars, xvars, hvars, dvars, tvars>>

SpecControl == Init /\ [][NextControl]_vars

NextCast ==
    \E events \in CastBatches :
        CastProcess(events)
        /\ UNCHANGED <<zvars, qvars, lvars, fvars, svars, mvars, cvars, xvars, hvars, dvars, tvars>>

SpecCast == Init /\ [][NextCast]_vars

NextSession ==
    \/ NewSession /\ UNCHANGED <<zvars, qvars, lvars, fvars, mvars, cvars, pvars, xvars, hvars, dvars, tvars>>
    \/ \E id \in 1..MaxSessions, event \in SessionEvents :
          Transition(id, event) /\ UNCHANGED <<zvars, qvars, lvars, fvars, mvars, cvars, pvars, xvars, hvars, dvars, tvars>>

SpecSession == Init /\ [][NextSession]_vars

NextDuration ==
    \/ \E request \in DurationRequests :
          DoReadLine(TRUE, request)
          /\ UNCHANGED <<zvars, qvars, lvars, svars, mvars, pvars, xvars, hvars, tvars>>
    \/ DriverSessions
          /\ UNCHANGED <<qvars, lvars, fvars, svars, mvars, cvars, pvars, xvars, hvars, tvars>>
    \/ DriverProcessDrain
          /\ UNCHANGED <<zvars, qvars, lvars, fvars, svars, mvars, pvars, xvars, hvars, tvars>>
    \/ DriverProcessCommand
          /\ UNCHANGED <<zvars, qvars, lvars, svars, mvars, pvars, xvars, hvars, tvars>>
    \/ DriverProcessReturn
          /\ UNCHANGED <<zvars, qvars, lvars, fvars, svars, mvars, pvars, xvars, hvars, tvars>>
    \/ DriverFaults
          /\ UNCHANGED <<zvars, qvars, lvars, svars, mvars, cvars, pvars, xvars, hvars, tvars>>
    \/ \E order \in {<<1, 2>>} :
          DriverZones(order)
          /\ UNCHANGED <<qvars, lvars, fvars, svars, mvars, cvars, pvars, xvars, hvars, tvars>>

SpecDuration == Init /\ [][NextDuration]_vars

\* The session ids and zone ids of the calls on the manager: zone 3 does
\* not exist.
AssignmentSessions == {1, 2, 3}

AssignmentZones == {1, 2, 3}

\* The batch routed before a tick: a move of session 1 and its attack on
\* session 2.
AssignmentBatches ==
    {<<MovementEvent(1, PosA), CombatEvent(1, 2, 10, "PHYSICAL")>>}

NextAssignment ==
    \/ \E session_id \in AssignmentSessions, zone_id \in AssignmentZones :
          AssignSession(session_id, zone_id)
          /\ UNCHANGED <<qvars, lvars, fvars, svars, cvars, pvars, xvars, hvars, dvars, tvars>>
    \/ \E session_id \in AssignmentSessions :
          RemoveSession(session_id)
          /\ UNCHANGED <<qvars, lvars, fvars, svars, cvars, pvars, xvars, hvars, dvars, tvars>>
    \/ \E session_id \in AssignmentSessions, zone_id \in AssignmentZones :
          TransferSession(session_id, zone_id)
          /\ UNCHANGED <<qvars, lvars, fvars, svars, cvars, pvars, xvars, hvars, dvars, tvars>>
    \/ \E batch \in AssignmentBatches :
          RouteEvents(batch)
          /\ UNCHANGED <<qvars, lvars, fvars, svars, cvars, pvars, xvars, hvars, dvars, tvars>>
    \/ \E o \in IterationOrders(DOMAIN zones_) :
          ManagerTickAll(o)
          /\ UNCHANGED <<qvars, lvars, fvars, svars, cvars, pvars, xvars, hvars, dvars, tvars>>

SpecAssignment == Init /\ [][NextAssignment]_vars

\* The zone ids create_zone is called with; 0 is ZoneConfig's default.
CreatedZones == {0, 3}

NextCreateZone ==
    \/ \E zone_id \in CreatedZones :
          CreateZone(zone_id)
          /\ UNCHANGED <<qvars, lvars, fvars, svars, cvars, pvars, xvars, hvars, dvars, tvars>>
    \/ \E session_id \in AssignmentSessions, zone_id \in CreatedZones \cup {1} :
          AssignSession(session_id, zone_id)
          /\ UNCHANGED <<qvars, lvars, fvars, svars, cvars, pvars, xvars, hvars, dvars, tvars>>
    \/ \E session_id \in AssignmentSessions :
          RemoveSession(session_id)
          /\ UNCHANGED <<qvars, lvars, fvars, svars, cvars, pvars, xvars, hvars, dvars, tvars>>
    \/ \E session_id \in AssignmentSessions, zone_id \in CreatedZones \cup {2} :
          TransferSession(session_id, zone_id)
          /\ UNCHANGED <<qvars, lvars, fvars, svars, cvars, pvars, xvars, hvars, dvars, tvars>>

SpecCreateZone == Init /\ [][NextCreateZone]_vars

NextTiming ==
    \/ \E took \in 0..MaxElapsed :
          TimedExecuteTick(took)
          /\ UNCHANGED <<zvars, qvars, lvars, fvars, svars, mvars, cvars, pvars, xvars, hvars, dvars>>
    \/ \E late \in 0..MaxOversleep :
          TimedSleep(late)
          /\ UNCHANGED <<zvars, qvars, lvars, fvars, svars, mvars, cvars, pvars, xvars, hvars, dvars>>

SpecTiming == Init /\ [][NextTiming]_vars

(***************************************************************************)
(* Properties of Zone::tick and ZoneManager::tick_all (SpecZone).          *)
(***************************************************************************)
\* A step that is one tick_all call.
TickStep == next_tick' = next_tick + 1

\* The tick of zone z in the tick_all call of this step fails: a hook throws.
TickFails(z) == last_hooks'[z].pre # "OK" \/ last_hooks'[z].post # "OK"

\* The per-zone result of zone z in a ZoneManagerTickResult.
ResultOf(result, z) ==
    LET i == CHOOSE j \in 1..Len(result.zone_results) :
                 result.zone_results[j].zone_id = z
    IN result.zone_results[i]

\* The position the movement events of a queue leave session s at: that of
\* the last movement event for s, or the position it had.
RECURSIVE LastPosition(_, _, _)
LastPosition(queue, s, position) ==
    IF queue = <<>> THEN position
    ELSE LastPosition(Tail(queue), s,
             IF Head(queue).event_type = "MOVEMENT" /\ Head(queue).session_id = s
             THEN Head(queue).position ELSE position)

\* C1: every call of Zone::tick increases the zone's total_ticks_ by exactly
\* 1, whether the tick completes or a hook throws; nothing else changes it.
C1_TotalTicksAdvanceByOne ==
    [][\A z \in DOMAIN zones_ :
          zones_'[z].total_ticks_ =
              IF TickStep THEN zones_[z].total_ticks_ + 1
              ELSE zones_[z].total_ticks_]_vars

\* C1 witness: a zone whose last tick failed in its post-tick hook, with
\* that tick counted like the one before it.
C1_Witness ==
    \E z \in DOMAIN zones_ :
        /\ last_hooks[z].post = "THROW_STD"
        /\ zones_[z].error_count_ >= 1
        /\ zones_[z].total_ticks_ >= 2

\* C2: a failed tick sets the state to CRASHED from any state; a successful
\* tick moves CRASHED to DEGRADED, DEGRADED to ACTIVE and leaves ACTIVE,
\* one step per successful tick.
C2_StateArc ==
    [][TickStep =>
          \A z \in DOMAIN zones_ :
              zones_'[z].state_ =
                  IF TickFails(z) THEN "CRASHED"
                  ELSE IF zones_[z].state_ = "CRASHED" THEN "DEGRADED"
                  ELSE "ACTIVE"]_vars

\* C2 witness: a zone that has failed and is ACTIVE again.
C2_Witness ==
    \E z \in DOMAIN zones_ :
        zones_[z].error_count_ >= 1 /\ zones_[z].state_ = "ACTIVE"

\* C3: in a tick_all call in which some zone's tick fails, every zone is
\* ticked exactly once, a zone whose own tick does not fail ends as it does
\* when no zone fails at all, with the same per-zone result, and
\* zones_with_errors is the number of zones whose tick failed.
C3_FailureIsolated ==
    [][TickStep =>
          LET failed == {z \in DOMAIN zones_ : TickFails(z)}
              clean == TickAllOf(zones_, next_tick, NoHooks,
                                 CHOOSE o \in IterationOrders(DOMAIN zones_) : TRUE)
          IN /\ last_result'.zones_with_errors = Cardinality(failed)
             /\ last_result'.zones_ticked = Cardinality(DOMAIN zones_)
             /\ Len(last_result'.zone_results) = Cardinality(DOMAIN zones_)
             /\ \A z \in DOMAIN zones_ :
                   /\ zones_'[z].total_ticks_ = zones_[z].total_ticks_ + 1
                   /\ Cardinality({j \in 1..Len(last_result'.zone_results) :
                          last_result'.zone_results[j].zone_id = z}) = 1
                   /\ z \notin failed =>
                         /\ zones_'[z] = clean.zones[z]
                         /\ ResultOf(last_result', z) = ResultOf(clean.result, z)]_vars

\* C3 witness: a tick_all call in which the zone ticked first failed and
\* the other, with events waiting, was ticked and processed them.
C3_Witness ==
    /\ last_result.zones_ticked = 2
    /\ last_result.zones_with_errors = 1
    /\ last_result.zone_results[1].zone_id = 1
    /\ last_hooks[1].pre # "OK"
    /\ last_hooks[2] = [pre |-> "OK", post |-> "OK"]
    /\ ResultOf(last_result, 2).events_processed > 0
    /\ zones_[2].entities_[2].position = PosA

\* C4 as stated: none of the events waiting in a CRASHED zone is applied to
\* entities or leaves the queue in a tick that fails.
C4_AsStated ==
    [][TickStep =>
          \A z \in DOMAIN zones_ :
              (zones_[z].state_ = "CRASHED" /\ TickFails(z)) =>
                  /\ zones_'[z].event_queue_ = zones_[z].event_queue_
                  /\ zones_'[z].entities_ = zones_[z].entities_]_vars

\* C4 amended: a push to a CRASHED zone appends the event to its queue; a
\* tick whose pre-tick hook throws leaves the queue and the entities as
\* they are; a tick whose pre-tick hook returns empties the queue and
\* applies the events to the entities, also when its post-tick hook throws.
C4_CrashedZoneKeepsEvents ==
    [][\A z \in DOMAIN zones_ :
          zones_[z].state_ = "CRASHED" =>
              LET queue == zones_[z].event_queue_ IN
              IF ~TickStep
              THEN /\ zones_'[z].entities_ = zones_[z].entities_
                   /\ \/ zones_'[z].event_queue_ = queue
                      \/ \E e \in ZoneEvents :
                            zones_'[z].event_queue_ = Append(queue, e)
              ELSE IF last_hooks'[z].pre # "OK"
              THEN /\ zones_'[z].event_queue_ = queue
                   /\ zones_'[z].entities_ = zones_[z].entities_
              ELSE /\ zones_'[z].event_queue_ = <<>>
                   /\ ResultOf(last_result', z).events_processed = Len(queue)
                   /\ \A s \in DOMAIN zones_[z].entities_ :
                         zones_'[z].entities_[s].position =
                             LastPosition(queue, s,
                                 zones_[z].entities_[s].position)]_vars

\* C4 witness: a zone that was CRASHED, kept two events through a tick that
\* failed in its pre-tick hook, and applied them in its next tick.
C4_Witness ==
    \E z \in DOMAIN zones_ :
        /\ zones_[z].state_ = "DEGRADED"
        /\ zones_[z].error_count_ >= 2
        /\ ResultOf(last_result, z).events_processed = 2
        /\ zones_[z].entities_[z].position # Origin
        /\ zones_[z].event_queue_ = <<>>

(***************************************************************************)
(* Properties of EventQueue (SpecQueue).                                   *)
(***************************************************************************)
RECURSIVE Flatten(_)
Flatten(batches) ==
    IF batches = <<>> THEN <<>> ELSE Head(batches) \o Flatten(Tail(batches))

\* Every item pushed so far, in the order the consumer gets or will get it:
\* the batches returned, the batch being returned, the items still queued.
ItemsInOrder == Flatten(drained) \o drain_result \o events_

\* The items of one producer in a sequence of items.
RECURSIVE FromProducer(_, _)
FromProducer(items, p) ==
    IF items = <<>> THEN <<>>
    ELSE IF Head(items).producer = p
    THEN <<Head(items)>> \o FromProducer(Tail(items), p)
    ELSE FromProducer(Tail(items), p)

\* C5: in every interleaving of pushes by several producers and drains by
\* the consumer, the items of each producer, over the batches returned and
\* the queue, are its pushes 1, 2, ... each exactly once and in push order
\* (none lost, none duplicated, FIFO per producer within and across
\* drains), and a drain leaves none of the items it returns in the queue.
C5_NoLossNoDupFifo ==
    /\ \A p \in Producers :
          FromProducer(ItemsInOrder, p) =
              [i \in 1..pushed[p] |-> [producer |-> p, seq |-> i]]
    /\ \A i \in 1..Len(events_) :
          /\ \A j \in 1..Len(drain_result) : events_[i] # drain_result[j]
          /\ \A b \in 1..Len(drained) :
                \A j \in 1..Len(drained[b]) : events_[i] # drained[b][j]

\* C5 witness: two drains have returned items, the items of one producer
\* are spread over both, and the first batch has items of both producers.
C5_Witness ==
    /\ Len(drained) >= 2
    /\ \E p, q \in Producers :
          /\ p # q
          /\ \E i, j \in 1..Len(drained[1]) :
                drained[1][i].producer = p /\ drained[1][j].producer = q
          /\ \E i \in 1..Len(drained[2]) : drained[2][i].producer = p

(***************************************************************************)
(* Properties of GameLoop (SpecLoop).                                      *)
(***************************************************************************)
\* The calls of callbacks made for tick n, in the order they were made.
RECURSIVE CallsOfTick(_, _)
CallsOfTick(history, n) ==
    IF history = <<>> THEN <<>>
    ELSE IF Head(history).tick = n
    THEN <<Head(history)>> \o CallsOfTick(Tail(history), n)
    ELSE CallsOfTick(Tail(history), n)

\* The number of callbacks thread t has called for the tick it is in.
CallsMadeBy(t) == IF loop[t].pc = "call" THEN loop[t].cb - 1 ELSE loop[t].cb

\* C6: the callbacks called for one tick are the registered ones, each
\* once, in registration order; the tick numbers handed out are 0, 1, 2,
\* ... up to tick_count_ - 1, none skipped and none handed out twice; and
\* while one loop body runs at a time the calls are made in tick order.
C6_CallbacksOncePerTickInOrder ==
    /\ \A i \in 1..Len(calls) : calls[i].tick \in 0..(tick_count_ - 1)
    /\ \A t, u \in LoopThreads :
          (t # u /\ TickInFlight(t) /\ TickInFlight(u)) => loop[t].tick # loop[u].tick
    /\ \A n \in 0..(tick_count_ - 1) :
          LET of_n == CallsOfTick(calls, n) IN
          /\ \A k \in 1..Len(of_n) : of_n[k].cb = k
          /\ \/ Len(of_n) = NumCallbacks
                /\ \A t \in LoopThreads :
                      (TickInFlight(t) /\ loop[t].tick = n) =>
                          (loop[t].pc = "in_cb" /\ loop[t].cb = NumCallbacks)
             \/ \E t \in LoopThreads :
                   /\ TickInFlight(t)
                   /\ loop[t].tick = n
                   /\ CallsMadeBy(t) = Len(of_n)
    /\ ~overlapped =>
          \A i, j \in 1..Len(calls) : i < j => calls[i].tick <= calls[j].tick

\* C6 witness: one loop body at a time has run two whole ticks.
C6_Witness ==
    /\ ~overlapped
    /\ Len(calls) >= 2 * NumCallbacks
    /\ calls[1].tick = 0
    /\ calls[2 * NumCallbacks].tick = 1

\* C7 as stated: a stop() call made while a loop body was running returns
\* with no tick in flight.
C7_AsStated ==
    (last_stop.made /\ last_stop.loop_running) => ~last_stop.in_flight

\* C7 amended: a stop() call that joined the background thread returned
\* only after that thread had left its loop body, so after its tick in
\* flight was complete and with no callback of it to come.
C7_JoinedStopWaits ==
    last_stop.joined => last_stop.bg_pc = "done"

\* C7 witness: a stop() call from another thread, made while the
\* background thread was running ticks, has joined it.
C7_Witness ==
    /\ last_stop.joined
    /\ last_stop.loop_running
    /\ last_stop.outside
    /\ Len(calls) >= NumCallbacks
    /\ \A c \in Starters : api[c] = "idle"

\* The driver is at rest: no call under way, no loop body, no thread held.
AtRest ==
    /\ ~running_ /\ ~thread_joinable /\ ~terminated
    /\ \A c \in Starters : api[c] = "idle"
    /\ \A t \in StopThreads : stop_call[t].pc = "none"
    /\ \A t \in LoopThreads : ~LoopActive(t)

\* C8 as stated: once stop() has stopped the driver and the driver is at
\* rest, start() and run() are refused: running_ stays false.
C8_AsStated == [][(stopped /\ AtRest) => ~running_']_vars

(***************************************************************************)
(* Properties of FaultRegistry (SpecFault).                                *)
(***************************************************************************)
\* The faults execute_pre_tick_faults is to call for a zone.
DueInZone(zone_id) ==
    {id \in DOMAIN faults_ :
        /\ faults_[id].active_
        /\ faults_[id].mode = "TICK_SCOPED"
        /\ id \in DOMAIN activations_
        /\ activations_[id].config.target_zone_id \in {0, zone_id}}

\* C9 as stated: execute_pre_tick_faults(zone) calls on_tick of every
\* active TICK_SCOPED fault whose target zone is 0 or the zone's id, and of
\* no other fault.
C9_AsStated ==
    last_op.op = "execute_pre_tick_faults" => last_op.called = DueInZone(last_op.zone)

\* The on_tick calls made since fault id was last activated.
TicksSinceActivation(id) == on_tick_calls - activated_at[id]

\* C10: an on_tick call leaves a fault that was active with duration N
\* active if N = 0 or fewer than N on_tick calls have been made since its
\* activation, and inactive at the N-th; every active fault has counted
\* the on_tick calls since its activation and, if N > 0, fewer than N.
C10_DurationExpiry ==
    [][/\ on_tick_calls' = on_tick_calls + 1 =>
             \A id \in DOMAIN faults_ :
                 faults_[id].active_ =>
                     LET n == activations_[id].config.duration_ticks IN
                     faults_'[id].active_ <=>
                         (n = 0 \/ TicksSinceActivation(id)' < n)
       /\ \A id \in DOMAIN faults_ :
             faults_'[id].active_ =>
                 /\ id \in DOMAIN activations_'
                 /\ activations_'[id].ticks_elapsed = TicksSinceActivation(id)'
                 /\ activations_'[id].config.duration_ticks > 0 =>
                       activations_'[id].ticks_elapsed <=
                           activations_'[id].config.duration_ticks]_vars

\* C10 witness: an on_tick call has just deactivated a fault at the end of
\* its duration of two ticks, while a fault of duration 0 activated before
\* it is still active.
C10_Witness ==
    /\ last_op.op = "on_tick"
    /\ "latency-spike" \in last_op.deactivated
    /\ ~faults_["latency-spike"].active_
    /\ TicksSinceActivation("latency-spike") = 2
    /\ faults_["memory-pressure"].active_
    /\ activations_["memory-pressure"].config.duration_ticks = 0
    /\ activations_["memory-pressure"].ticks_elapsed >= 2

\* The step is the registry call op on fault id.
RegistryCall(op, id) == last_op'.op = op /\ last_op'.id = id

\* The step leaves the registered faults (with their active flags and
\* activation counters) and the activation records as they were.
RegistryUnchanged == faults_' = faults_ /\ activations_' = activations_

\* C11 as stated: activate of an unregistered id and deactivate of a fault
\* that is not active both return false and leave the registry unchanged.
C11_AsStated ==
    [][\A id \in FaultIds \cup {UnknownFault} :
          /\ (RegistryCall("activate", id) /\ id \notin DOMAIN faults_)
                => (~last_op'.ok /\ RegistryUnchanged)
          /\ (RegistryCall("deactivate", id)
                /\ ~(id \in DOMAIN faults_ /\ faults_[id].active_))
                => (~last_op'.ok /\ RegistryUnchanged)]_vars

\* C11 (amended): activate and deactivate of an unregistered id return false
\* and leave the registry unchanged; deactivate of a registered fault that
\* is not active returns true and leaves the registry unchanged.
C11_UnknownRefusedInactiveUnchanged ==
    [][\A id \in FaultIds \cup {UnknownFault} :
          /\ (RegistryCall("activate", id) /\ id \notin DOMAIN faults_)
                => (~last_op'.ok /\ RegistryUnchanged)
          /\ (RegistryCall("deactivate", id) /\ id \notin DOMAIN faults_)
                => (~last_op'.ok /\ RegistryUnchanged)
          /\ (RegistryCall("deactivate", id) /\ id \in DOMAIN faults_
                /\ ~faults_[id].active_)
                => (last_op'.ok /\ RegistryUnchanged)]_vars

\* C11 witness: activate of an unregistered id has just been refused while
\* one fault is active with an activation record and the other, activated
\* once, is not.
C11_Witness ==
    /\ last_op.op = "activate" /\ last_op.id = UnknownFault /\ ~last_op.ok
    /\ faults_["latency-spike"].active_
    /\ "latency-spike" \in DOMAIN activations_
    /\ ~faults_["memory-pressure"].active_
    /\ faults_["memory-pressure"].activations_ = 1

\* C12: after activate(id); deactivate(id); activate(id) the registry is as
\* a single activate(id) from the same state leaves it, with the fault's
\* activations counter one higher.
C12_ReactivationAsSingleActivation ==
    sequence.n = 3 =>
        LET single == ActivateIn(sequence.id, sequence.config,
                                 sequence.faults, sequence.activations)
        IN /\ last_op.ok
           /\ activations_ = single.activations
           /\ activations_[sequence.id].ticks_elapsed = 0
           /\ faults_ = [single.faults EXCEPT ![sequence.id].activations_ = @ + 1]

\* C12 witness: the three calls have been made on memory-pressure with the
\* megabytes parameter given, from a state where it was already active and
\* had counted an on_tick call.
C12_Witness ==
    /\ sequence.n = 3
    /\ sequence.id = "memory-pressure"
    /\ sequence.config.params = <<1>>
    /\ "memory-pressure" \in DOMAIN sequence.activations
    /\ sequence.activations["memory-pressure"].ticks_elapsed = 1
    /\ faults_["memory-pressure"].buffers_ = 1

(***************************************************************************)
(* Properties of Session (SpecSession).                                    *)
(***************************************************************************)
\* C13: transition(event) changes the state only for the ten (state, event)
\* pairs of the transition table, moving to the listed target and returning
\* true; for every other pair, every event in DESTROYED included, it
\* returns false and leaves the state unchanged.
C13_TransitionTable ==
    LET l == last_transition
        target == [p \in {<<"CONNECTING", "AUTHENTICATE_SUCCESS">>,
                          <<"CONNECTING", "DISCONNECT">>,
                          <<"AUTHENTICATING", "ENTER_WORLD">>,
                          <<"AUTHENTICATING", "DISCONNECT">>,
                          <<"IN_WORLD", "DISCONNECT">>,
                          <<"IN_WORLD", "BEGIN_TRANSFER">>,
                          <<"TRANSFERRING", "TRANSFER_COMPLETE">>,
                          <<"TRANSFERRING", "DISCONNECT">>,
                          <<"DISCONNECTING", "RECONNECT">>,
                          <<"DISCONNECTING", "TIMEOUT">>} |->
                     CASE p = <<"CONNECTING", "AUTHENTICATE_SUCCESS">> -> "AUTHENTICATING"
                       [] p = <<"CONNECTING", "DISCONNECT">> -> "DESTROYED"
                       [] p = <<"AUTHENTICATING", "ENTER_WORLD">> -> "IN_WORLD"
                       [] p = <<"AUTHENTICATING", "DISCONNECT">> -> "DISCONNECTING"
                       [] p = <<"IN_WORLD", "DISCONNECT">> -> "DISCONNECTING"
                       [] p = <<"IN_WORLD", "BEGIN_TRANSFER">> -> "TRANSFERRING"
                       [] p = <<"TRANSFERRING", "TRANSFER_COMPLETE">> -> "IN_WORLD"
                       [] p = <<"TRANSFERRING", "DISCONNECT">> -> "DISCONNECTING"
                       [] p = <<"DISCONNECTING", "RECONNECT">> -> "AUTHENTICATING"
                       [] p = <<"DISCONNECTING", "TIMEOUT">> -> "DESTROYED"]
    IN l.id # 0 =>
          /\ Cardinality(DOMAIN target) = 10
          /\ IF <<l.from, l.event>> \in DOMAIN target
             THEN l.returned /\ sessions[l.id] = target[<<l.from, l.event>>]
             ELSE ~l.returned /\ sessions[l.id] = l.from
          /\ l.from = "DESTROYED" => (~l.returned /\ sessions[l.id] = "DESTROYED")

\* C13 witness: a session that reached DESTROYED through DISCONNECTING has
\* just had an event refused, while another session is in the world.
C13_Witness ==
    /\ last_transition.id = 1
    /\ last_transition.from = "DESTROYED"
    /\ last_transition.event = "RECONNECT"
    /\ ~last_transition.returned
    /\ sessions[1] = "DESTROYED"
    /\ 2 \in DOMAIN sessions /\ sessions[2] = "IN_WORLD"

(***************************************************************************)
(* Properties of the calls on ZoneManager (SpecManager).                   *)
(***************************************************************************)
\* The step is this call on the manager, returning this value.
ManagerCall(op, session_id, zone_id, returned) ==
    last_call' = Call(op, session_id, zone_id, returned)

\* The entity of a session in a zone.
EntityIn(zones, zone_id, session_id) == zones[zone_id].entities_[session_id]

HasEntity(zones, zone_id, session_id) ==
    zone_id \in DOMAIN zones /\ session_id \in DOMAIN zones[zone_id].entities_

\* C14 as stated: a successful transfer_session(sid, target) leaves the
\* entity absent from the source zone and present in the target zone with
\* the position, cast state and combat state it had, and maps sid to the
\* target zone.
C14_AsStated ==
    [][\A c \in TransferCalls :
          ManagerCall("transfer_session", c[1], c[2], 1) =>
              LET source == session_zone_map_[c[1]] IN
              /\ ~HasEntity(zones_', source, c[1])
              /\ HasEntity(zones_', c[2], c[1])
              /\ EntityIn(zones_', c[2], c[1]) = EntityIn(zones_, source, c[1])
              /\ session_zone_map_'[c[1]] = c[2]]_vars

\* C14 (amended): a successful transfer_session(sid, target) leaves the
\* entity present in the target zone with the position, cast state and
\* combat state (threat table included) it had, absent from the source zone
\* when that is another zone than the target, and maps sid to the target.
C14_TransferPreservesEntity ==
    [][\A c \in TransferCalls :
          ManagerCall("transfer_session", c[1], c[2], 1) =>
              LET source == session_zone_map_[c[1]] IN
              /\ source # c[2] => ~HasEntity(zones_', source, c[1])
              /\ HasEntity(zones_', c[2], c[1])
              /\ EntityIn(zones_', c[2], c[1]) = EntityIn(zones_, source, c[1])
              /\ session_zone_map_'[c[1]] = c[2]]_vars

\* C14 witness: session 2 has just been transferred to zone 1 after it has
\* moved, started a cast and been attacked in zone 2.
C14_Witness ==
    /\ last_call = Call("transfer_session", 2, 1, 1)
    /\ ~HasEntity(zones_, 2, 2)
    /\ HasEntity(zones_, 1, 2)
    /\ EntityIn(zones_, 1, 2).position = PosB
    /\ EntityIn(zones_, 1, 2).cast_state.is_casting
    /\ 1 \in DOMAIN EntityIn(zones_, 1, 2).combat_state.threat_table
    /\ session_zone_map_[2] = 1

\* C15 as stated: when the target zone rejects the entity (one with that id
\* is already there) transfer_session returns false, the mapping is as it
\* was and the entity is back in the source zone with all of its sub-state.
C15_AsStated ==
    [][\A c \in TransferCalls :
          (/\ last_call'.op = "transfer_session"
           /\ last_call'.session_id = c[1] /\ last_call'.zone_id = c[2]
           /\ c[1] \in DOMAIN session_zone_map_
           /\ session_zone_map_[c[1]] # c[2]
           /\ HasEntity(zones_, session_zone_map_[c[1]], c[1])
           /\ HasEntity(zones_, c[2], c[1]))
          => LET source == session_zone_map_[c[1]] IN
             /\ last_call'.returned = 0
             /\ session_zone_map_' = session_zone_map_
             /\ HasEntity(zones_', source, c[1])
             /\ EntityIn(zones_', source, c[1]) = EntityIn(zones_, source, c[1])]_vars

\* C16 as stated: assign_session(sid, zid) fails and changes nothing when
\* the zone does not exist or sid is already assigned; otherwise it creates
\* a fresh PLAYER entity with id sid in zone zid and maps sid to zid.
C16_AsStated ==
    [][\A c \in AssignCalls :
          (last_call'.op = "assign_session" /\ last_call'.session_id = c[1]
              /\ last_call'.zone_id = c[2]) =>
          IF c[2] \notin DOMAIN zones_ \/ c[1] \in DOMAIN session_zone_map_
          THEN /\ last_call'.returned = 0
               /\ zones_' = zones_ /\ session_zone_map_' = session_zone_map_
          ELSE /\ last_call'.returned = 1
               /\ HasEntity(zones_', c[2], c[1])
               /\ EntityIn(zones_', c[2], c[1]) = Entity(c[1], "PLAYER")
               /\ session_zone_map_' = MapPut(session_zone_map_, c[1], c[2])]_vars

\* C16 (amended): assign_session(sid, zid) fails and changes nothing when
\* the zone does not exist, sid is already assigned or the zone already
\* holds an entity with id sid; otherwise it adds a fresh PLAYER entity
\* with id sid to zone zid, changes no other entity and maps sid to zid.
C16_AssignCreatesOrRefuses ==
    [][\A c \in AssignCalls :
          (last_call'.op = "assign_session" /\ last_call'.session_id = c[1]
              /\ last_call'.zone_id = c[2]) =>
          IF \/ c[2] \notin DOMAIN zones_
             \/ c[1] \in DOMAIN session_zone_map_
             \/ HasEntity(zones_, c[2], c[1])
          THEN /\ last_call'.returned = 0
               /\ zones_' = zones_ /\ session_zone_map_' = session_zone_map_
          ELSE /\ last_call'.returned = 1
               /\ zones_' = [zones_ EXCEPT ![c[2]].entities_ =
                                MapPut(@, c[1], Entity(c[1], "PLAYER"))]
               /\ session_zone_map_' = MapPut(session_zone_map_, c[1], c[2])]_vars

\* C16 witness: the unassigned session 3 has just been assigned to zone 1,
\* which holds its fresh entity beside the entity of session 1.
C16_Witness ==
    /\ last_call = Call("assign_session", 3, 1, 1)
    /\ HasEntity(zones_, 1, 3)
    /\ EntityIn(zones_, 1, 3) = Entity(3, "PLAYER")
    /\ HasEntity(zones_, 1, 1)
    /\ session_zone_map_[3] = 1

\* The events of a batch that route_events pushes onto the queue of a zone.
RoutedTo(batch, zone_id, map) ==
    SelectSeq(batch, LAMBDA e : /\ e.event_type # "NULL"
                                /\ e.session_id \in DOMAIN map
                                /\ map[e.session_id] = zone_id)

\* The events of a batch whose session is assigned.
Assigned(batch, map) ==
    SelectSeq(batch, LAMBDA e : e.event_type # "NULL" /\ e.session_id \in DOMAIN map)

\* C17: route_events(batch) appends to the queue of each zone the events of
\* the sessions assigned to it, in batch order, drops the events of
\* unassigned sessions and returns the number of events it pushed.
C17_RouteEvents ==
    [][last_call'.op = "route_events" =>
          /\ \A z \in DOMAIN zones_ :
                zones_'[z] = [zones_[z] EXCEPT !.event_queue_ =
                                 @ \o RoutedTo(last_call'.batch, z, session_zone_map_)]
          /\ last_call'.returned = Len(Assigned(last_call'.batch, session_zone_map_))
          /\ session_zone_map_' = session_zone_map_]_vars

\* C17 witness: with sessions 1 and 2 in zone 2 and session 3 unassigned,
\* the batch of five entries has just been routed: three events are on the
\* queue of zone 2 in batch order and 3 was returned.
C17_Witness ==
    /\ last_call.op = "route_events"
    /\ Len(last_call.batch) = 5
    /\ last_call.returned = 3
    /\ 3 \notin DOMAIN session_zone_map_
    /\ zones_[2].event_queue_ =
          <<MovementEvent(2, PosB), SpellCastEvent(2, "CAST_START", 7, 2),
            CombatEvent(1, 2, 10, "PHYSICAL")>>
    /\ zones_[1].event_queue_ = <<>>

(***************************************************************************)
(* Control channel: dispatch and the command queue.                        *)
(***************************************************************************)
\* The verbs execute_command knows.
Verbs == {"activate", "deactivate", "deactivate_all", "status", "list"}

\* A request with an unknown verb, without a string command, without the
\* string fault_id its verb requires, or with a params member,
\* target_zone_id or duration_ticks that is not a number.  (The three
\* optional fields may be absent.)
InvalidRequest(request) ==
    \/ ~Contains(request.command) \/ ~IsString(request.command)
    \/ request.command.v \notin Verbs
    \/ /\ request.command.v \in {"activate", "deactivate", "status"}
       /\ ~Contains(request.fault_id) \/ ~IsString(request.fault_id)
    \/ /\ request.command.v = "activate"
       /\ \/ Contains(request.target_zone_id) /\ GetThrows(request.target_zone_id)
          \/ Contains(request.duration_ticks) /\ GetThrows(request.duration_ticks)
          \/ /\ Contains(request.params) /\ Contains(request.params.member)
             /\ GetThrows(request.params.member)

\* C18, as the claim states it: every command the dispatcher executes
\* produces a response with a boolean success, and a request with an unknown
\* verb or a missing or invalid field produces success = false with an error
\* text and leaves the registry unchanged.  The code violates it: a
\* target_zone_id, duration_ticks or params member that is not a number makes
\* get() throw, so no response is produced, and in the last case the fault
\* has already been switched on.
C18_AsStated ==
    [][executed' # executed =>
          LET e == executed'[Len(executed')]
          IN /\ ~e.thrown
             /\ e.response.success \in BOOLEAN
             /\ InvalidRequest(e.request) =>
                   /\ e.response.success = FALSE
                   /\ e.response.error # ""
                   /\ faults_' = faults_
                   /\ activations_' = activations_]_vars

\* The on_complete calls that the execute_command calls made so far owe.
RECURSIVE Owed(_)
Owed(execs) ==
    IF execs = <<>> THEN <<>>
    ELSE IF Head(execs).on_complete
    THEN <<[id |-> Head(execs).id, response |-> Head(execs).response]>>
         \o Owed(Tail(execs))
    ELSE Owed(Tail(execs))

\* C19, as the claim states it: once process_pending_commands has been
\* through everything pushed, every pushed command has been executed exactly
\* once, in push order, and each on_complete callback has been called exactly
\* once with its command's response.  The code violates it when a command of
\* the batch makes execute_command throw (C18): that command gets no
\* response and the commands drained after it are never executed.
C19_AsStated ==
    (control_pc = "thrown" \/ (control_pc = "idle" /\ commands_ = <<>>)) =>
        /\ Len(executed) = pushes
        /\ \A i \in 1..Len(executed) : executed[i].id = i /\ ~executed[i].thrown
        /\ completed = Owed(executed)

(***************************************************************************)
(* Global cooldown.                                                        *)
(***************************************************************************)
\* A CAST_START of session s
IsCastStart(ev, s) ==
    ev.event_type = "SPELL_CAST" /\ ev.action = "CAST_START" /\ ev.session_id = s

\* The entities that, at tick t, are within ticks T .. T + 29 of their last
\* accepted CAST_START at tick T.
InGcdWindow(accepted, t) ==
    {s \in DOMAIN accepted :
        accepted[s] >= 0 /\ accepted[s] <= t
        /\ t <= accepted[s] + (kGlobalCooldownTicks - 1)}

\* The batch without the CAST_START events the cooldown rejects: those of an
\* entity in `closed`, which an accepted CAST_START of the batch joins.
RECURSIVE WithoutRejected(_, _, _)
WithoutRejected(events, closed, known) ==
    IF events = <<>> THEN <<>>
    ELSE LET ev == Head(events) IN
         IF \E s \in closed : IsCastStart(ev, s)
         THEN WithoutRejected(Tail(events), closed, known)
         ELSE IF \E s \in known : IsCastStart(ev, s)
         THEN <<ev>> \o WithoutRejected(Tail(events), closed \cup {ev.session_id},
                                        known)
         ELSE <<ev>> \o WithoutRejected(Tail(events), closed, known)

\* The number of CAST_START events of the entities in `known`
RECURSIVE CastStarts(_, _)
CastStarts(events, known) ==
    IF events = <<>> THEN 0
    ELSE (IF \E s \in known : IsCastStart(Head(events), s) THEN 1 ELSE 0)
         + CastStarts(Tail(events), known)

PhasesRun(z) == TickStep /\ last_hooks'[z].pre = "OK"

\* The queue of zone z holds a movement event of session s.
MovesIn(queue, s) ==
    \E i \in 1..Len(queue) :
        queue[i].event_type = "MOVEMENT" /\ queue[i].session_id = s

\* C21, as the claim states it: an entity that is casting and receives a
\* Movement event in a zone tick has, after that tick, the event's target as
\* its position, is no longer casting, and is counted in casts_interrupted.
\* The code violates it: MovementProcessor::process never sets
\* moved_this_tick, so the cast goes on.
C21_AsStated ==
    [][\A z \in DOMAIN zones_ :
          PhasesRun(z) =>
              \A s \in DOMAIN zones_[z].entities_ :
                  (/\ zones_[z].entities_[s].cast_state.is_casting
                   /\ MovesIn(zones_[z].event_queue_, s)) =>
                      /\ zones_'[z].entities_[s].position
                            = LastPosition(zones_[z].event_queue_, s,
                                           zones_[z].entities_[s].position)
                      /\ ~zones_'[z].entities_[s].cast_state.is_casting
                      /\ ResultOf(last_result', z).spell_result.casts_interrupted >= 1]_vars

\* C22: after every step every entity is alive exactly when its health is
\* above 0, so an entity whose health an attack brings to 0 or below is dead
\* when the step that applied the damage ends; an entity that is dead keeps
\* its health and stays dead.
C22_AliveIffHealth ==
    [][\A z \in DOMAIN zones_ :
          \A s \in DOMAIN zones_'[z].entities_ :
              LET after == zones_'[z].entities_[s].combat_state IN
              /\ after.is_alive <=> after.health > 0
              /\ (s \in DOMAIN zones_[z].entities_
                  /\ ~zones_[z].entities_[s].combat_state.is_alive) =>
                     /\ ~after.is_alive
                     /\ after.health = zones_[z].entities_[s].combat_state.health]_vars

\* C22 witness: an entity killed in an earlier tick, one with health exactly
\* 0 or one with health below 0, and the last tick's attack on a dead
\* entity counted as a miss.
C22_Witness ==
    /\ zones_[1].total_ticks_ >= 2
    /\ \E s \in DOMAIN zones_[1].entities_ :
          /\ ~zones_[1].entities_[s].combat_state.is_alive
          /\ zones_[1].entities_[s].combat_state.health = 0
    /\ ResultOf(last_result, 1).combat_result.kills = 0
    /\ ResultOf(last_result, 1).combat_result.attacks_missed >= 1

DispatchOf(fault) ==
    last_dispatch'.n = last_dispatch.n + 1 /\ last_dispatch'.fault = fault

\* C24: within one activation of session-crash the first dispatch into a
\* zone that holds an entity removes exactly one entity of that zone and
\* nothing else; every dispatch after it, and every dispatch into an empty
\* zone or on the inactive fault, changes no zone; so at most one entity is
\* removed per activation.
C24_OneRemovalPerActivation ==
    [][/\ crash_removed' <= 1
       /\ DispatchOf("session-crash") =>
             LET z == last_dispatch'.zone
                 before == zones_[z].entities_
                 after == zones_'[z].entities_
             IN /\ \A y \in DOMAIN zones_ \ {z} : zones_'[y] = zones_[y]
                /\ IF session_crash.active_ /\ crash_removed = 0 /\ DOMAIN before # {}
                   THEN /\ Cardinality(DOMAIN after) = Cardinality(DOMAIN before) - 1
                        /\ DOMAIN after \subseteq DOMAIN before
                        /\ \A s \in DOMAIN after : after[s] = before[s]
                   ELSE zones_'[z] = zones_[z]]_vars

\* C24 witness: in the fault's second activation a dispatch into an empty
\* zone and a dispatch into a zone with two entities have been made, one
\* entity has been removed, and the last dispatch, into a zone that holds an
\* entity, removed none.
C24_Witness ==
    /\ session_crash.activations_ = 2
    /\ crash_removed = 1
    /\ last_dispatch.fault = "session-crash"
    /\ last_dispatch.before # EmptyMap
    /\ zones_[last_dispatch.zone].entities_ = last_dispatch.before
    /\ \E z \in DOMAIN zones_ : DOMAIN zones_[z].entities_ = {}

\* C25, as the claim states it: with cascading-zone-failure activated with
\* defaults and still active, and the zones ticked by the driver only, zone 1
\* is CRASHED and zone 2 ACTIVE after the first tick, zone 1 is DEGRADED
\* after the second and ACTIVE after the third.  The code violates it:
\* execute_pre_tick_faults is empty (C9), so the driver never calls the
\* scenario and zone 1 stays ACTIVE.
C25_AsStated ==
    (cascading.active_ /\ ~since_activation.direct) =>
        /\ since_activation.ticks = 1 =>
              zones_[1].state_ = "CRASHED" /\ zones_[2].state_ = "ACTIVE"
        /\ since_activation.ticks = 2 => zones_[1].state_ = "DEGRADED"
        /\ since_activation.ticks = 3 => zones_[1].state_ = "ACTIVE"

\* A dispatch of thundering-herd into zone z at tick t, the fault active
HerdDispatch(z, t) ==
    /\ herd.active_
    /\ last_dispatch'.n = last_dispatch.n + 1
    /\ last_dispatch'.fault = "thundering-herd"
    /\ last_dispatch'.zone = z
    /\ last_dispatch'.tick = t

\* C26, as the claim states it: the first dispatch into a zone since the
\* activation removes every PLAYER entity of the zone, and a later dispatch
\* into it at a tick >= (tick of the activation's first dispatch) +
\* reconnect_delay_ticks leaves every removed player in the zone again,
\* whatever the tick of the first dispatch.  The code violates it when the
\* first dispatch is at tick 0.
C26_AsStated ==
    [][\A z \in ZoneIds, t \in HerdTicks :
          HerdDispatch(z, t) =>
              /\ ~herd_history.dispatched[z] => Players(zones_'[z]) = {}
              /\ (/\ herd_history.dispatched[z]
                  /\ t >= herd_history.first_tick + herd.reconnect_delay_ticks_)
                 => herd_history.removed[z] \subseteq DOMAIN zones_'[z].entities_]_vars

\* The four steps of the tick callback, in the order of main.cpp
DriverSteps == <<"sessions", "commands", "faults", "zones">>

\* The type of the last notification about session sid in a drained batch,
\* "" when there is none
RECURSIVE LastNotification(_, _, _)
LastNotification(evts, i, sid) ==
    IF i = 0 THEN ""
    ELSE IF evts[i].session_id = sid THEN evts[i].type
    ELSE LastNotification(evts, i - 1, sid)

\* What was drained in the current callback has taken effect.
DrainedTookEffect ==
    /\ \A i \in 1..Len(driver_drained.commands) :
          \E j \in 1..Len(executed) :
             /\ executed[j].id = driver_drained.commands[i].id
             /\ ~executed[j].thrown
    /\ \A i \in 1..Len(driver_drained.sessions) :
          LET sid == driver_drained.sessions[i].session_id
              last == LastNotification(driver_drained.sessions,
                                       Len(driver_drained.sessions), sid)
          IN IF last = "CONNECTED"
             THEN sid \in DOMAIN session_zone_map_
             ELSE sid \notin DOMAIN session_zone_map_

\* C27, as the claim states it: every tick callback that gets past the
\* shutdown test performs the session drain, the command drain and
\* execution, FaultRegistry::on_tick and tick_all, in this order, and what
\* it drained has taken effect when the zones are ticked.  The code violates
\* it: a command that throws (C18) ends the callback inside the second step.
C27_AsStated ==
    /\ \E n \in 0..4 : driver_log = SubSeq(DriverSteps, 1, n)
    /\ driver_pc \notin {"commands", "faults", "zones"} =>
          driver_log \in {<<>>, DriverSteps}
    /\ (driver_pc = "zones" \/ driver_log = DriverSteps) => DrainedTookEffect

IsPrefix(s, t) == Len(s) <= Len(t) /\ SubSeq(t, 1, Len(s)) = s

\* C28: a step of a network thread leaves the fault registry, the zones with
\* their entity maps and the session-to-zone map as they are and only
\* appends to the drain queues; every step that changes one of them, or
\* takes items off a queue, is a step of the simulation thread.
C28_OnlySimulationThreadOwnsState ==
    [][/\ step_thread' = "network" =>
             /\ UNCHANGED <<faults_, activations_, zones_, session_zone_map_,
                            commands, executed>>
             /\ IsPrefix(session_events, session_events')
             /\ IsPrefix(commands_, commands_')
       /\ (\/ faults_' # faults_
           \/ activations_' # activations_
           \/ zones_' # zones_
           \/ session_zone_map_' # session_zone_map_
           \/ ~IsPrefix(session_events, session_events')
           \/ ~IsPrefix(commands_, commands_')) => step_thread' = "simulation"]_vars

\* A network thread has pushed a command and a notification, the simulation
\* thread has drained and applied both, and the network thread has written
\* the response.
C28_Witness ==
    /\ step_thread = "network"
    /\ socket_writes > 0
    /\ completed # <<>>
    /\ faults_["latency-spike"].active_
    /\ 3 \in DOMAIN session_zone_map_

\* C29: a tick whose pre-tick hook throws leaves the zone's entity map and
\* its event queue exactly as they were and the zone CRASHED; a later tick
\* whose hooks return moves the zone from CRASHED to DEGRADED and from
\* DEGRADED to ACTIVE, and processes the events that were kept.
C29_PreHookThrowLeavesZoneIntact ==
    [][TickStep =>
          \A z \in DOMAIN zones_ :
              IF last_hooks'[z].pre # "OK"
              THEN /\ zones_'[z].entities_ = zones_[z].entities_
                   /\ zones_'[z].event_queue_ = zones_[z].event_queue_
                   /\ zones_'[z].state_ = "CRASHED"
                   /\ ResultOf(last_result', z).had_error
              ELSE last_hooks'[z].post = "OK" =>
                   /\ zones_[z].state_ = "CRASHED" => zones_'[z].state_ = "DEGRADED"
                   /\ zones_[z].state_ = "DEGRADED" => zones_'[z].state_ = "ACTIVE"
                   /\ zones_[z].state_ = "ACTIVE" => zones_'[z].state_ = "ACTIVE"
                   /\ zones_'[z].event_queue_ = <<>>
                   /\ ResultOf(last_result', z).events_processed =
                          Len(zones_[z].event_queue_)
                   /\ ~ResultOf(last_result', z).had_error]_vars

\* C29 witness: a zone with several entities whose first tick failed in the
\* pre-tick hook with events waiting, and which two ticks later is ACTIVE
\* again with the events applied.
C29_Witness ==
    /\ zones_[1].state_ = "ACTIVE"
    /\ zones_[1].error_count_ = 1
    /\ zones_[1].total_ticks_ = 3
    /\ Cardinality(DOMAIN zones_[1].entities_) >= 2
    /\ zones_[1].entities_[1].position = PosA
    /\ zones_[1].event_queue_ = <<>>

\* C30, as the claim states it: after every call of the processor every
\* entity that is casting has a spell_id other than 0 and at least one tick
\* of cast time left.  The code violates it: a CAST_START with spell_id 0
\* and a cast time is accepted as it is.
C30_AsStated ==
    \A s \in DOMAIN cast_entities :
        cast_entities[s].cast_state.is_casting =>
            /\ cast_entities[s].cast_state.spell_id # 0
            /\ cast_entities[s].cast_state.cast_ticks_remaining >= 1

\* C31, as the claim states it: every entity's health is at most its
\* max_health.  The code violates it: an attack with a negative base_damage
\* is applied as it is and raises the target's health.
C31_AsStated ==
    \A z \in DOMAIN zones_ :
        \A s \in DOMAIN zones_[z].entities_ :
            zones_[z].entities_[s].combat_state.health
                <= zones_[z].entities_[s].combat_state.max_health

\* C32, as the claim states it: for an active fault, the ticks_elapsed of
\* fault_status(id) is the number of on_tick calls the registry has made
\* since the fault's last activation, and its activations is the number of
\* activate calls on the fault that succeeded.  The code violates the first
\* half: the fault's own ticks_elapsed_ is reported, which nothing counts up.
C32_AsStated ==
    \A id \in FaultIds :
        faults_[id].active_ =>
            /\ FaultStatus(id, faults_)[1].ticks_elapsed = TicksSinceActivation(id)
            /\ FaultStatus(id, faults_)[1].activations = activated_ok[id]

\* C33, as the claim states it: after a tick that overran, the next tick
\* does not start at once but at least one tick interval after the overrun
\* tick ended.  The loop does the opposite: it skips the sleep.
C33_AsStated ==
    \A n \in 1..(Len(tick_metrics) - 1) :
        tick_metrics[n].overrun =>
            tick_metrics[n + 1].tick_start
                >= tick_metrics[n].tick_end + tick_interval_

\* C33, amended: a tick is recorded as overrun exactly when its callbacks
\* took longer than the tick interval; the tick after an overrun tick starts
\* at once, with no sleep; and every tick starts at least one tick interval
\* after the START of the tick before it, so no tick is run early to make
\* up for lost time.
C33_NoDebtAccumulation ==
    /\ \A n \in 1..Len(tick_metrics) :
          tick_metrics[n].overrun
              <=> (tick_metrics[n].tick_end - tick_metrics[n].tick_start
                      > tick_interval_)
    /\ \A n \in 1..(Len(tick_metrics) - 1) :
          /\ tick_metrics[n + 1].tick_start
                >= tick_metrics[n].tick_start + tick_interval_
          /\ tick_metrics[n].overrun =>
                tick_metrics[n + 1].tick_start = tick_metrics[n].tick_end

\* An overrun tick, a tick that was in time, and a tick after each.
C33_Witness ==
    /\ Len(tick_metrics) = 3
    /\ tick_metrics[1].overrun
    /\ ~tick_metrics[2].overrun
    /\ tick_metrics[2].duration < tick_interval_

\* C34, as the claim states it: over every interleaving of start(), run()
\* and stop() at most one thread is inside the loop body.  The code violates
\* it: a start() or run() that follows a stop() enters a second loop body
\* while the first, which has not yet seen running_ false, is still in its
\* tick, and the first then goes on as well.
C34_AsStated ==
    Cardinality({t \in LoopThreads : LoopActive(t)}) <= 1

\* C35, as the claim states it: a stop() called from inside a tick callback
\* returns, on the thread of run() and on the background thread of start()
\* alike, so it is never at thread_.join() on the thread it is to join.  The
\* code violates it for start(): the callback runs on thread_, stop() finds
\* thread_ joinable and joins the calling thread, which throws
\* std::system_error out of the thread function and ends the program.
C35_AsStated ==
    \A t \in LoopThreads :
        (loop[t].pc = "in_cb" /\ stop_call[t].pc = "join") => t # Bg

\* The last activate command on fault id that succeeded: its place in
\* executed, or 0.
RECURSIVE LastActivation(_, _)
LastActivation(id, i) ==
    IF i = 0 THEN 0
    ELSE IF /\ executed[i].request.command = JsonString("activate")
            /\ executed[i].request.fault_id = JsonString(id)
            /\ ~executed[i].thrown
            /\ executed[i].response.success
    THEN i
    ELSE LastActivation(id, i - 1)

\* C36: when the zones are about to be ticked in driver tick t, a fault whose
\* last activation was a command executed in tick T with duration_ticks
\* N > 0 is active exactly if T <= t <= T + N - 2: it is active during the
\* zone ticks of N - 1 ticks, of none with N = 1, and inactive from tick
\* T + N - 1 on.
C36_ActiveForDurationMinusOne ==
    driver_pc = "zones" =>
        \A id \in FaultIds :
            LET i == LastActivation(id, Len(executed))
                N == executed[i].request.duration_ticks.v
                T == activated_at[id]
            IN (i > 0 /\ N > 0) =>
                  (faults_[id].active_ <=> next_tick \in T..(T + N - 2))

\* C36 witness: latency-spike, activated by a command of tick 0 for 3
\* ticks, is inactive when the zones of tick 2 are about to be ticked.
C36_Witness ==
    /\ driver_pc = "zones"
    /\ next_tick = 2
    /\ LastActivation("latency-spike", Len(executed)) > 0
    /\ executed[LastActivation("latency-spike", Len(executed))]
           .request.duration_ticks.v = 3
    /\ activated_at["latency-spike"] = 0
    /\ ~faults_["latency-spike"].active_

\* C37, as the claim states it: the registry holds an activation record for
\* a fault exactly when the fault is active, and active_count() is the
\* number of activation records.  The code violates it: an activate whose
\* params member is not a number marks the fault active and then throws,
\* before the registry has stored the record.
C37_AsStated ==
    /\ \A id \in DOMAIN faults_ : (id \in DOMAIN activations_) <=> faults_[id].active_
    /\ ActiveCount(faults_) = Cardinality(DOMAIN activations_)

\* C38: after any sequence of assign_session, remove_session,
\* transfer_session and tick_all calls (events routed in between), a session
\* id is mapped to zone Z exactly when zone Z holds an entity with that id,
\* and no session id has an entity in two zones.
C38_MapMatchesEntities ==
    /\ \A session_id \in AssignmentSessions : \A z \in DOMAIN zones_ :
          (session_id \in DOMAIN session_zone_map_
              /\ session_zone_map_[session_id] = z)
          <=> session_id \in DOMAIN zones_[z].entities_
    /\ \A session_id \in AssignmentSessions : \A y, z \in DOMAIN zones_ :
          (/\ session_id \in DOMAIN zones_[y].entities_
           /\ session_id \in DOMAIN zones_[z].entities_) => y = z

\* C38 witness: after a tick, session 1 has been transferred to zone 2,
\* where session 3 has been assigned, and session 2 has been removed.
C38_Witness ==
    /\ next_tick > 0
    /\ last_call.op = "transfer_session" /\ last_call.returned = 1
    /\ DOMAIN session_zone_map_ = {1, 3}
    /\ session_zone_map_[1] = 2 /\ session_zone_map_[3] = 2
    /\ DOMAIN zones_[2].entities_ = {1, 3}
    /\ DOMAIN zones_[1].entities_ = {}

\* C39, as the claim states it: session_zone(sid) is the sentinel kNoZone
\* exactly when sid is assigned to no zone.  The code violates it:
\* create_zone accepts the zone id 0, and a session assigned to that zone
\* has session_zone(sid) = 0.
C39_AsStated ==
    \A session_id \in AssignmentSessions :
        SessionZone(session_id, session_zone_map_) = kNoZone
            <=> session_id \notin DOMAIN session_zone_map_

\* The entities of a map that are casting.
Casting(entities) ==
    Cardinality({s \in DOMAIN entities : entities[s].cast_state.is_casting})

\* C40, as the claim states it, call by call: the casts a process() call
\* started, with the entities that were casting before it, are the casts it
\* completed or interrupted and the entities casting after it; summed over
\* the calls from the first one on, casts_started = casts_completed +
\* casts_interrupted + the entities casting now.  The code violates it: a
\* CAST_START that arrives when the global cooldown is over is accepted for
\* an entity that is still casting and overwrites that cast, which is
\* counted neither as completed nor as interrupted.
C40_AsStated ==
    last_process.tick >= 0 =>
        last_process.spell_result.casts_started + Casting(last_process.before)
            = last_process.spell_result.casts_completed
              + last_process.spell_result.casts_interrupted
              + Casting(cast_entities)

====
